---- MODULE Spec2Model ----
(***************************************************************************)
(* The playground of the feature-flag platform:                            *)
(* PlaygroundService.evaluateAdvancedQuery, evaluateQuery, evaluate and    *)
(* resolveFeatures (src/src/lib/features/playground/playground-service.ts) *)
(* as a state machine, together with the evaluation engine they call       *)
(* (offline client, context expander, complexity guard, variant selector), *)
(* whose code is outside the source tree and is modelled from spec.md.     *)
(***************************************************************************)
EXTENDS Integers, Sequences, FiniteSets, TLC

VARIABLES
    call,                \* the arguments of the running call
    store,               \* the feature definitions the store returns, per environment
    pc,                  \* position of the call: start, resolved, expanded, evaluating, done, rejected
    environmentFeatures, \* local of evaluateAdvancedQuery / evaluateQuery (line 121, 265)
    contexts,            \* local of evaluateAdvancedQuery (line 126)
    results,             \* the per-(environment, context) promises of line 135
    cur,                 \* the continuation of evaluate that is running, feature by feature
    out,                 \* what the call returned, or the error it rejected with
    engineLog,           \* every answer client.isEnabled gave
    variantCalls,        \* every call of client.forceGetVariant
    evalCalls,           \* the number of calls of client.isEnabled
    selections,          \* every selection the Variant Selector made, and for whom
    db,                  \* the tables of the access store
    perm,                \* the running call of AccessService.hasPermission
    ops,                 \* the running call of a role operation of AccessService
    grp                  \* the groups, their events and the running GroupService calls

playgroundVars == << call, store, pc, environmentFeatures, contexts, results, cur, out,
                     engineLog, variantCalls, evalCalls, selections >>

accessVars == << db, perm, ops, grp >>

vars == << playgroundVars, accessVars >>

(***************************************************************************)
(* Bounds of the model.                                                    *)
(***************************************************************************)
\* limits a caller may pass are 0..MaxLimit
MaxLimit == 6
\* depth at which a dependency resolution that never stopped would be cut
MaxDepth == 4

(***************************************************************************)
(* Small helpers.                                                          *)
(***************************************************************************)
Range(s) == { s[i] : i \in DOMAIN s }

RECURSIVE FlatSeq(_)
FlatSeq(ss) == IF ss = << >> THEN << >> ELSE Head(ss) \o FlatSeq(Tail(ss))

\* the empty object {}
EmptyObject == [ k \in {} |-> "" ]

\* an optional value: undefined, or a value
Undefined == [ some |-> FALSE ]
Some(v) == [ some |-> TRUE, val |-> v ]

(***************************************************************************)
(* Conversions of strings.  TLC's strings are atoms, so each conversion is *)
(* a table over the strings of the model.                                  *)
(***************************************************************************)
\* Number(s): the number a string denotes, or NaN
NumberOf(s) ==
    CASE s = "7"  -> Some(7)
      [] s = "8"  -> Some(8)
      [] s = "5"  -> Some(5)
      [] s = "10" -> Some(10)
      [] s = "2"  -> Some(2)
      [] OTHER    -> Undefined

\* the stable hash of a stickiness value, normalised to 1..100
NormalizedHash(s) ==
    CASE s = "7"  -> 23
      [] s = "8"  -> 77
      [] s = "s1" -> 41
      [] s = "r1" -> 12
      [] s = "r2" -> 88
      [] OTHER    -> 50

\* what the random per-evaluation fallback of the variant selector may draw
RandomSeeds == { "r1", "r2" }

(***************************************************************************)
(* The data of one evaluation (spec.md, section 3).                        *)
(***************************************************************************)
Constraint(field, op, values, inverted) ==
    [ contextField |-> field, operator |-> op, values |-> values, inverted |-> inverted ]

\* a strategy; variants is the strategy-scoped variant list, undefined when the
\* definition carries none
Strategy(name, parameters, constraints, segmentIds, variants, disabled) ==
    [ name |-> name, parameters |-> parameters, constraints |-> constraints,
      segments |-> segmentIds, variants |-> variants, disabled |-> disabled ]

Variant(name, weight, overrides) ==
    [ name |-> name, weight |-> weight, stickiness |-> "default", overrides |-> overrides ]

Dependency(feature, enabled, variantNames) ==
    [ feature |-> feature, enabled |-> enabled, variants |-> variantNames ]

Feature(name, project, enabled, strategies, variants, dependencies) ==
    [ name |-> name, project |-> project, enabled |-> enabled,
      strategies |-> strategies, variants |-> variants, dependencies |-> dependencies ]

NoParameters == [ rollout |-> 0, userIds |-> {} ]

\* the segments segmentService.getActive() returns
ActiveSegments ==
    << [ id |-> 1, constraints |-> << Constraint("appName", "IN", {"a"}, FALSE) >> ] >>

VariantsAB == << Variant("vA", 50, << >>), Variant("vB", 50, << >>) >>
VariantsOverride ==
    << Variant("vA", 50, << >>),
       Variant("vB", 50, << [ contextName |-> "userId", values |-> {"7"} ] >>) >>
VariantsS == << Variant("vS", 100, << >>) >>

SDefault == Strategy("default", NoParameters, << >>, << >>, Undefined, FALSE)
SDefaultOff == Strategy("default", NoParameters, << >>, << >>, Undefined, TRUE)
SDefaultVariants == Strategy("default", NoParameters, << >>, << >>, Some(VariantsS), FALSE)
SDefaultNoVariants == Strategy("default", NoParameters, << >>, << >>, Some(<< >>), FALSE)
SUserIn7 ==
    Strategy("default", NoParameters, << Constraint("userId", "IN", {"7"}, FALSE) >>,
             << >>, Undefined, FALSE)
SUserNotIn7 ==
    Strategy("default", NoParameters, << Constraint("userId", "NOT_IN", {"7"}, FALSE) >>,
             << >>, Undefined, FALSE)
SUserWithId8 ==
    Strategy("userWithId", [ rollout |-> 0, userIds |-> {"8"} ], << >>, << >>, Undefined, FALSE)
SRollout0 ==
    Strategy("flexibleRollout", [ rollout |-> 0, userIds |-> {} ], << >>, << >>, Undefined, FALSE)
SRollout50 ==
    Strategy("flexibleRollout", [ rollout |-> 50, userIds |-> {} ], << >>, << >>, Undefined, FALSE)
SSegment == Strategy("default", NoParameters, << >>, << 1 >>, Undefined, FALSE)
SRemote == Strategy("remote", NoParameters, << >>, << >>, Undefined, FALSE)
SRemoteUser7 ==
    Strategy("remote", NoParameters, << Constraint("userId", "IN", {"7"}, FALSE) >>,
             << >>, Undefined, FALSE)
SNumGt ==
    Strategy("default", NoParameters, << Constraint("userId", "NUM_GT", {"7"}, FALSE) >>,
             << >>, Undefined, FALSE)
SNumBadValue ==
    Strategy("default", NoParameters, << Constraint("userId", "NUM_GT", {"x"}, FALSE) >>,
             << >>, Undefined, FALSE)
SNumBadField ==
    Strategy("default", NoParameters, << Constraint("appName", "NUM_LT", {"5"}, TRUE) >>,
             << >>, Undefined, FALSE)
SBadOperator ==
    Strategy("default", NoParameters, << Constraint("userId", "MATCHES", {"7"}, FALSE) >>,
             << >>, Undefined, FALSE)

Environments == { "dev", "prod" }

\* the feature definitions of the store, per environment: what
\* featureToggleService.getPlaygroundFeatures answers
StorePlain ==
    [ dev  |-> << Feature("A", "p1", TRUE, << SUserIn7 >>, VariantsAB, << >>),
                  Feature("B", "p2", FALSE, << SDefault >>, VariantsAB, << >>) >>,
      prod |-> << Feature("A", "p1", FALSE, << SUserIn7, SDefaultVariants >>, << >>, << >>),
                  Feature("B", "p2", TRUE, << SDefaultOff, SDefaultVariants >>, VariantsAB,
                          << Dependency("Z", FALSE, {}) >>) >> ]

StoreDependencies ==
    [ dev  |-> << Feature("A", "p1", TRUE, << SDefault >>, VariantsOverride,
                          << Dependency("B", TRUE, {}) >>),
                  Feature("B", "p1", TRUE, << SUserIn7 >>, VariantsAB, << >>),
                  Feature("C", "p2", TRUE, << SDefault >>, << >>, << >>) >>,
      prod |-> << Feature("A", "p1", TRUE, << SRemote >>, << >>,
                          << Dependency("B", FALSE, {}), Dependency("C", TRUE, {"vA"}) >>),
                  Feature("B", "p1", FALSE, << SDefault >>, << >>, << >>),
                  Feature("C", "p2", TRUE, << SDefaultNoVariants >>, VariantsAB,
                          << Dependency("B", FALSE, {}) >>) >> ]

StoreCycle ==
    [ dev  |-> << Feature("A", "p1", TRUE, << SDefault >>, VariantsAB,
                          << Dependency("B", TRUE, {}) >>),
                  Feature("B", "p1", TRUE, << SDefault >>, << >>,
                          << Dependency("A", TRUE, {}) >>),
                  Feature("C", "p2", TRUE, << SRollout50, SBadOperator >>, << >>, << >>) >>,
      prod |-> << Feature("A", "p1", TRUE, << SDefault >>, << >>,
                          << Dependency("A", TRUE, {}) >>),
                  Feature("B", "p1", TRUE, << SSegment, SNumBadValue >>, VariantsAB, << >>),
                  Feature("C", "p2", TRUE, << SBadOperator >>, VariantsAB, << >>) >> ]

StoreUneven ==
    [ dev  |-> << >>,
      prod |-> << Feature("A", "p1", TRUE, << SRemoteUser7, SRollout0 >>, VariantsAB, << >>),
                  Feature("B", "p1", TRUE, << SRemote, SUserWithId8 >>, << >>,
                          << Dependency("Z", TRUE, {}) >>),
                  Feature("C", "p2", TRUE, << SNumGt, SNumBadField >>, VariantsOverride, << >>) >> ]

\* feature names that read as numbers
StoreNumbered ==
    [ dev  |-> << Feature("10", "p1", TRUE, << SDefault >>, VariantsAB, << >>),
                  Feature("2", "p2", TRUE, << SUserIn7 >>, << >>, << >>) >>,
      prod |-> << Feature("B", "p1", TRUE, << SDefault >>, << >>, << >>),
                  Feature("2", "p2", TRUE, << SDefault >>, VariantsAB, << >>) >> ]

Stores == { StorePlain, StoreDependencies, StoreCycle, StoreUneven, StoreNumbered }

\* a field of a context template: one value, or an ordered sequence of values
Single(name, v) == [ name |-> name, multi |-> FALSE, vals |-> << v >> ]
Multi(name, vs) == [ name |-> name, multi |-> TRUE, vals |-> vs ]

TemplateOne == << Single("userId", "7"), Single("currentTime", "2024") >>
TemplateUsers == << Multi("userId", << "7", "8" >>), Single("appName", "a") >>
TemplateApps == << Multi("appName", << "a", "b" >>) >>
TemplateApp == << Single("appName", "a") >>

TemplateGrid == << Multi("userId", << "7", "8" >>), Multi("appName", << "a", "b" >>) >>

Templates == { TemplateOne, TemplateUsers, TemplateApps, TemplateApp, TemplateGrid }

EnvironmentLists == { << >>, << "dev" >>, << "prod" >>, << "dev", "prod" >> }

\* the projects a call asks for: the constant ALL, or a list of project ids
ALL == [ all |-> TRUE, list |-> << "*" >> ]
Projects(list) == [ all |-> FALSE, list |-> list ]

(***************************************************************************)
(* The evaluation engine (spec.md, sections 4.1 to 4.4).                   *)
(***************************************************************************)
\* new Date(s), written as the ISO string of the date
DateOf(s) == IF s = "2024" THEN "2024-01-01T00:00:00.000Z" ELSE "Invalid Date"

\* the value of a context field, undefined when the context has no such field
ContextValue(ctx, field) == IF field \in DOMAIN ctx THEN Some(ctx[field]) ELSE Undefined

\* the Context Expander: the Cartesian product over the fields of a template, in
\* field order, the values of each field in their order
RECURSIVE Combinations(_, _)
Combinations(fields, acc) ==
    IF fields = << >> THEN acc
    ELSE LET fld == Head(fields)
             step == [ i \in 1..Len(acc) |->
                         [ j \in 1..Len(fld.vals) |-> acc[i] @@ (fld.name :> fld.vals[j]) ] ]
         IN  Combinations(Tail(fields), FlatSeq(step))

\* a mutation of generateObjectCombinations: only the first value of a field
generateObjectCombinationsFirstValues(template) ==
    Combinations([ i \in DOMAIN template |-> [ template[i] EXCEPT !.vals = << @[1] >> ] ],
                 << EmptyObject >>)

generateObjectCombinations(template) == Combinations(template, << EmptyObject >>)

\* the Complexity Guard: TRUE when the request is rejected
validateQueryComplexity(environmentsCount, featuresCount, contextCombinationsCount, limit) ==
    environmentsCount * featuresCount * contextCombinationsCount > limit

KnownOperators == { "IN", "NOT_IN", "NUM_EQ", "NUM_GT", "NUM_LT" }

\* one constraint on one context; a value that does not parse leaves a numeric
\* constraint unsatisfied, and inverted negates the outcome
ConstraintHolds(c, ctx) ==
    LET v == ContextValue(ctx, c.contextField)
        member == v.some /\ v.val \in c.values
        numeric ==
            /\ v.some
            /\ c.values # {}
            /\ LET a == NumberOf(v.val)
                   b == NumberOf(CHOOSE x \in c.values : TRUE)
               IN  /\ a.some
                   /\ b.some
                   /\ CASE c.operator = "NUM_EQ" -> a.val = b.val
                        [] c.operator = "NUM_GT" -> a.val > b.val
                        [] OTHER -> a.val < b.val
        raw == CASE c.operator = "IN" -> member
                 [] c.operator = "NOT_IN" -> ~member
                 [] c.operator \in { "NUM_EQ", "NUM_GT", "NUM_LT" } -> numeric
                 [] OTHER -> FALSE
    IN  raw # c.inverted

AllConstraintsHold(cs, ctx) == \A i \in DOMAIN cs : ConstraintHolds(cs[i], ctx)

\* a segment is satisfied when all its constraints are; a segment that is not
\* active satisfies nothing
SegmentHolds(id, segments, ctx) ==
    \E i \in DOMAIN segments :
        segments[i].id = id /\ AllConstraintsHold(segments[i].constraints, ctx)

\* the constraints of a feature: its strategies' own and their segments'
ConstraintsOf(s, segments) ==
    Range(s.constraints) \cup
    UNION { Range(segments[i].constraints) :
                i \in { k \in DOMAIN segments : segments[k].id \in Range(s.segments) } }

\* a definition the engine cannot evaluate: a constraint with an unknown operator
Malformed(feature, segments) ==
    \E i \in DOMAIN feature.strategies :
        \E c \in ConstraintsOf(feature.strategies[i], segments) :
            c.operator \notin KnownOperators

\* the value the default stickiness hashes: userId, then sessionId, then remoteAddress
StickinessValue(ctx) ==
    IF "userId" \in DOMAIN ctx THEN Some(ctx["userId"])
    ELSE IF "sessionId" \in DOMAIN ctx THEN Some(ctx["sessionId"])
    ELSE IF "remoteAddress" \in DOMAIN ctx THEN Some(ctx["remoteAddress"])
    ELSE Undefined

\* the activation algorithm of a strategy kind: "true", "false" or "unknown"
ActivationResult(s, ctx) ==
    CASE s.name = "default" -> "true"
      [] s.name = "userWithId" ->
            IF "userId" \in DOMAIN ctx /\ ctx["userId"] \in s.parameters.userIds
            THEN "true" ELSE "false"
      [] s.name = "flexibleRollout" ->
            LET v == StickinessValue(ctx)
            IN  IF v.some /\ s.parameters.rollout > 0
                          /\ NormalizedHash(v.val) <= s.parameters.rollout
                THEN "true" ELSE "false"
      [] OTHER -> "unknown"

\* one strategy on one context (4.2, step 2)
StrategyResult(s, segments, ctx) ==
    IF /\ AllConstraintsHold(s.constraints, ctx)
       /\ \A i \in DOMAIN s.segments : SegmentHolds(s.segments[i], segments, ctx)
    THEN ActivationResult(s, ctx)
    ELSE "false"

\* the per-strategy detail: the strategies that are not disabled, in order
EvaluatedStrategies(feature, segments, ctx) ==
    LET active == SelectSeq(feature.strategies, LAMBDA s : ~s.disabled)
    IN  [ i \in 1..Len(active) |->
            [ name |-> active[i].name,
              result |-> StrategyResult(active[i], segments, ctx),
              variants |-> active[i].variants ] ]

\* a mutation of OverallStrategyResult: the strategies ANDed instead of ORed
OverallStrategyResultAnd(data) ==
    IF data # << >> /\ \A i \in DOMAIN data : data[i].result = "true" THEN "true"
    ELSE IF \E i \in DOMAIN data : data[i].result = "unknown" THEN "unknown"
    ELSE "false"

\* the strategies ORed (4.2, step 3)
OverallStrategyResult(data) ==
    IF \E i \in DOMAIN data : data[i].result = "true" THEN "true"
    ELSE IF \E i \in DOMAIN data : data[i].result = "unknown" THEN "unknown"
    ELSE "false"

\* the variant list of the first satisfied strategy, undefined when there is none
SatisfiedStrategyVariants(data) ==
    LET hits == SelectSeq(data, LAMBDA d : d.result = "true")
    IN  IF hits = << >> THEN Undefined ELSE hits[1].variants

ConfigurationError == "ConfigurationError"

\* what client.isEnabled answers for a feature whose dependency check ended with
\* unsatisfied (a dependency not in its required state) and cyclic (a cycle found)
FeatureStrategiesEvaluationResult(feature, segments, ctx, unsatisfied, cyclic) ==
    IF cyclic \/ Malformed(feature, segments) THEN
        [ result |-> "false", strategies |-> << >>, variants |-> Undefined,
          hasUnsatisfiedDependency |-> unsatisfied, error |-> ConfigurationError ]
    ELSE IF ~feature.enabled THEN
        [ result |-> "false", strategies |-> << >>, variants |-> Undefined,
          hasUnsatisfiedDependency |-> unsatisfied, error |-> "none" ]
    ELSE LET data == EvaluatedStrategies(feature, segments, ctx)
         IN  [ result |-> OverallStrategyResult(data), strategies |-> data,
               variants |-> SatisfiedStrategyVariants(data),
               hasUnsatisfiedDependency |-> unsatisfied, error |-> "none" ]

\* the disabled sentinel variant
getDefaultVariant == [ name |-> "disabled", enabled |-> FALSE ]

\* no variant at all
NullVariant == [ null |-> TRUE ]

\* the first variant of a list one of whose overrides names the context's value
OverrideVariant(variants, ctx) ==
    LET hits == SelectSeq(variants, LAMBDA v :
                    \E i \in DOMAIN v.overrides :
                        LET c == ContextValue(ctx, v.overrides[i].contextName)
                        IN  c.some /\ c.val \in v.overrides[i].values)
    IN  IF hits = << >> THEN Undefined ELSE Some(hits[1])

RECURSIVE TotalWeight(_)
TotalWeight(variants) ==
    IF variants = << >> THEN 0 ELSE Head(variants).weight + TotalWeight(Tail(variants))

\* the variant whose cumulative weight range holds target
RECURSIVE VariantAt(_, _)
VariantAt(variants, target) ==
    IF Len(variants) = 1 \/ target <= Head(variants).weight THEN Head(variants)
    ELSE VariantAt(Tail(variants), target - Head(variants).weight)

\* the variant list a selection is made from: the satisfied strategy's own when it
\* has one, the feature's otherwise
SelectionList(feature, evaluation) ==
    IF evaluation.variants.some /\ evaluation.variants.val # << >>
    THEN evaluation.variants.val ELSE feature.variants

\* one selection of the Variant Selector as the claims look at it: who asked, for
\* which feature of which environment, the stickiness value, the list, the outcome
Selection(by, feature, environment, evaluation, ctx, variant) ==
    [ by |-> by, name |-> feature.name, environment |-> environment,
      sticky |-> StickinessValue(ctx), list |-> SelectionList(feature, evaluation),
      variant |-> variant ]

\* a mutation of forceGetVariant: the stickiness value is not looked at
forceGetVariantUnsticky(feature, evaluation, ctx, seed) ==
    LET own == IF evaluation.variants.some THEN evaluation.variants.val ELSE << >>
        list == IF own # << >> THEN own ELSE feature.variants
        forced == IF OverrideVariant(own, ctx).some THEN OverrideVariant(own, ctx)
                  ELSE OverrideVariant(feature.variants, ctx)
        total == TotalWeight(list)
    IN  IF forced.some THEN [ name |-> forced.val.name, enabled |-> TRUE ]
        ELSE IF list = << >> \/ total = 0 THEN getDefaultVariant
        ELSE [ name |-> VariantAt(list, ((NormalizedHash(seed) - 1) % total) + 1).name,
               enabled |-> TRUE ]

\* the Variant Selector (4.4); seed is what the random fallback draws
forceGetVariant(feature, evaluation, ctx, seed) ==
    LET own == IF evaluation.variants.some THEN evaluation.variants.val ELSE << >>
        list == IF own # << >> THEN own ELSE feature.variants
        forced == IF OverrideVariant(own, ctx).some THEN OverrideVariant(own, ctx)
                  ELSE OverrideVariant(feature.variants, ctx)
        sticky == StickinessValue(ctx)
        hash == NormalizedHash(IF sticky.some THEN sticky.val ELSE seed)
        total == TotalWeight(list)
    IN  IF forced.some THEN [ name |-> forced.val.name, enabled |-> TRUE ]
        ELSE IF list = << >> \/ total = 0 THEN getDefaultVariant
        ELSE [ name |-> VariantAt(list, ((hash - 1) % total) + 1).name, enabled |-> TRUE ]

(***************************************************************************)
(* PlaygroundService: the pure parts of resolveFeatures, evaluate,         *)
(* evaluateAdvancedQuery and evaluateQuery.                                *)
(***************************************************************************)
\* featureToggleService.getPlaygroundFeatures({ project, environment })
getPlaygroundFeatures(projects, environment) ==
    IF projects = ALL THEN store[environment]
    ELSE SelectSeq(store[environment], LAMBDA f : f.project \in Range(projects.list))

\* an object built by reduce over the features: the last feature of a name wins
ObjectByName(features, field) ==
    [ n \in { features[i].name : i \in DOMAIN features } |->
        LET last == CHOOSE i \in DOMAIN features :
                        /\ features[i].name = n
                        /\ \A j \in DOMAIN features : features[j].name = n => j <= i
        IN  features[last][field] ]

resolveFeatures(projects, environment) ==
    LET features == getPlaygroundFeatures(projects, environment)
    IN  [ features |-> features,
          featureProject |-> ObjectByName(features, "project"),
          environment |-> environment ]

\* the context handed to the client: currentTime becomes a Date, or undefined
ClientContext(context) ==
    LET timed == "currentTime" \in DOMAIN context /\ context["currentTime"] # ""
    IN  [ k \in (DOMAIN context \ (IF timed THEN {} ELSE { "currentTime" })) |->
            IF k = "currentTime" THEN DateOf(context[k]) ELSE context[k] ]

\* a mutation of IsEnabled: the dependencies are forgotten
IsEnabledIgnoringDependencies(evaluation, feature) ==
    evaluation.result = "true" /\ feature.enabled

\* isEnabled of a result
IsEnabled(evaluation, feature) ==
    /\ evaluation.result = "true"
    /\ feature.enabled
    /\ ~evaluation.hasUnsatisfiedDependency

\* a mutation of VariantGate: a variant is selected for every feature
VariantGateAlways(isEnabled, evaluation) == TRUE

\* a mutation of VariantGate: the strategies' outcome decides alone
VariantGateOnStrategies(isEnabled, evaluation) == evaluation.result = "true"

\* whether the variant of a result comes from client.forceGetVariant
VariantGate(isEnabled, evaluation) == isEnabled

\* a mutation of VariantWhenNotEnabled: no variant at all
VariantWhenNotEnabledNull == NullVariant

\* the variant of a result that does not come from client.forceGetVariant
VariantWhenNotEnabled == getDefaultVariant

\* a mutation of ReportedStrategiesResult: the outcome collapsed to a boolean
ReportedStrategiesResultBoolean(evaluation) ==
    IF evaluation.result = "true" THEN "true" ELSE "false"

\* strategies.result of a result
ReportedStrategiesResult(evaluation) == evaluation.result

\* a mutation of ReportedStrategiesData: the strategies of the definition
ReportedStrategiesDataOfDefinition(evaluation, feature) ==
    [ i \in DOMAIN feature.strategies |->
        [ name |-> feature.strategies[i].name, result |-> "false",
          variants |-> feature.strategies[i].variants ] ]

\* strategies.data of a result (line 215)
ReportedStrategiesData(evaluation, feature) == evaluation.strategies

\* a mutation of RecordedContext: the context as the client was given it
RecordedContextOfClient(input) == ClientContext(input.context)

\* context of a result (line 227)
RecordedContext(input) == input.context

\* a || b || [] on a list that may be undefined: an empty list is truthy
ReportedVariants(evaluation, variantsMap, name) ==
    IF evaluation.variants.some THEN evaluation.variants.val
    ELSE IF name \in DOMAIN variantsMap THEN variantsMap[name]
    ELSE << >>

\* the result evaluate builds for one feature
EvaluationItem(input, feature, evaluation, isEnabled, variant) ==
    [ isEnabled |-> isEnabled,
      isEnabledInCurrentEnvironment |-> feature.enabled,
      hasUnsatisfiedDependency |-> evaluation.hasUnsatisfiedDependency,
      strategies |-> [ result |-> ReportedStrategiesResult(evaluation),
                       data |-> ReportedStrategiesData(evaluation, feature) ],
      projectId |-> IF feature.name \in DOMAIN input.featureProject
                    THEN Some(input.featureProject[feature.name]) ELSE Undefined,
      variant |-> variant,
      name |-> feature.name,
      environment |-> input.environment,
      context |-> RecordedContext(input),
      variants |-> ReportedVariants(evaluation, ObjectByName(input.features, "variants"),
                                    feature.name) ]

\* omitKeys(item, 'environment', 'context')
omitKeys(item) == [ k \in (DOMAIN item \ { "environment", "context" }) |-> item[k] ]

\* the keys of a sequence of keys, each once, in the order of their first occurrence
RECURSIVE FirstSeen(_, _)
FirstSeen(keys, seen) ==
    IF keys = << >> THEN << >>
    ELSE IF Head(keys) \in seen THEN FirstSeen(Tail(keys), seen)
    ELSE << Head(keys) >> \o FirstSeen(Tail(keys), seen \cup { Head(keys) })

RECURSIVE Ascending(_)
Ascending(keys) ==
    IF keys = {} THEN << >>
    ELSE LET least == CHOOSE k \in keys :
                          \A other \in keys : NumberOf(k).val <= NumberOf(other).val
         IN  << least >> \o Ascending(keys \ { least })

\* the order in which an object lists its keys: the keys that are array
\* indices in ascending order, then the other keys in insertion order
ObjectKeys(inserted) ==
    Ascending({ k \in Range(inserted) : NumberOf(k).some })
        \o SelectSeq(inserted, LAMBDA k : ~NumberOf(k).some)

\* a mutation of groupBy: a group keeps only the last of its items
groupByLastWins(items, keys) ==
    LET order == ObjectKeys(FirstSeen(keys, {}))
        indexed == [ i \in DOMAIN items |-> [ key |-> keys[i], item |-> items[i] ] ]
    IN  [ i \in 1..Len(order) |->
            LET hits == SelectSeq(indexed, LAMBDA p : p.key = order[i])
            IN  [ key |-> order[i], entries |-> << hits[Len(hits)].item >> ] ]

\* Object.entries(groupBy(items, key)): keys[i] is the key of items[i]
groupBy(items, keys) ==
    LET order == ObjectKeys(FirstSeen(keys, {}))
        indexed == [ i \in DOMAIN items |-> [ key |-> keys[i], item |-> items[i] ] ]
    IN  [ i \in 1..Len(order) |->
            LET hits == SelectSeq(indexed, LAMBDA p : p.key = order[i])
            IN  [ key |-> order[i], entries |-> [ j \in DOMAIN hits |-> hits[j].item ] ] ]

\* lines 151 to 161: one entry of the report, from the results of one feature name
ReportEntry(entries) ==
    [ name |-> entries[1].name,
      projectId |-> entries[1].projectId,
      environments |->
          groupBy(entries, [ i \in DOMAIN entries |-> entries[i].environment ]) ]

\* lines 150 to 161: the report of evaluateAdvancedQuery, from the flat list of results
GroupedReport(items) ==
    LET itemsByName == groupBy(items, [ i \in DOMAIN items |-> items[i].name ])
    IN  [ g \in DOMAIN itemsByName |->
            CHOOSE entry \in { ReportEntry(entries) : entries \in { itemsByName[g].entries } } :
                TRUE ]

\* a mutation of QueryComplexity: the number of environments is left out
QueryComplexityOneEnvironment ==
    << 1,
       IF environmentFeatures = << >> THEN 0 ELSE Len(environmentFeatures[1].features),
       Len(contexts), call.limit >>

\* lines 128 to 133: what the Complexity Guard is given
QueryComplexity ==
    << Len(call.environments),
       IF environmentFeatures = << >> THEN 0 ELSE Len(environmentFeatures[1].features),
       Len(contexts), call.limit >>

\* a mutation of EvaluationInputs: every environment is given the features of
\* the first one
EvaluationInputsFirstFeatures ==
    FlatSeq([ e \in DOMAIN environmentFeatures |->
                [ c \in DOMAIN contexts |->
                    [ features |-> environmentFeatures[1].features,
                      featureProject |-> environmentFeatures[1].featureProject,
                      context |-> contexts[c],
                      environment |-> environmentFeatures[e].environment ] ] ])

\* lines 136 to 147: the evaluations started, one per environment and context, in
\* the order of the environments and then of the contexts
EvaluationInputs ==
    FlatSeq([ e \in DOMAIN environmentFeatures |->
                [ c \in DOMAIN contexts |->
                    [ features |-> environmentFeatures[e].features,
                      featureProject |-> environmentFeatures[e].featureProject,
                      context |-> contexts[c],
                      environment |-> environmentFeatures[e].environment ] ] ])

(***************************************************************************)
(* AccessService.hasPermission and the permissions of a user as the access *)
(* store reads them (src/src/lib/services/access-service.ts,               *)
(* src/src/lib/db/access-store.ts).                                        *)
(***************************************************************************)
ADMIN == "ADMIN"
ALL_PROJECTS == "*"
ALL_ENVS == "*"
ROOT_PERMISSION_TYPE == "root"
ENVIRONMENT_PERMISSION_TYPE == "environment"
DEFAULT_PROJECT == "default"

\* the table permissions: the type of each permission
PermissionType ==
    [ ADMIN |-> "root", CREATE_ADDON |-> "root", CREATE_FEATURE |-> "project",
      UPDATE_FEATURE_ENVIRONMENT |-> "environment" ]

\* the rows of role_permission of a role, from its permissions and their environments
RolePermissions(role, granted) ==
    { [ role_id |-> role, permission |-> g[1], environment |-> g[2] ] : g \in granted }

RoleAdmin == 1
RoleEditor == 2
RoleMember == 3
RoleCustomRoot == 4
RoleCustomProject == 5
\* an id no role has
RoleUnknown == 9

\* the types of roles
ROOT_ROLE_TYPE == "root"
CUSTOM_ROOT_ROLE_TYPE == "root-custom"
PROJECT_ROLE_TYPE == "project"
CUSTOM_PROJECT_ROLE_TYPE == "custom"
ROOT_ROLE_TYPES == { ROOT_ROLE_TYPE, CUSTOM_ROOT_ROLE_TYPE }
PROJECT_ROLE_TYPES == { PROJECT_ROLE_TYPE, CUSTOM_PROJECT_ROLE_TYPE }

\* the table roles: three built-in roles and two custom ones
Role(id, name, type) ==
    [ id |-> id, name |-> name, type |-> type, description |-> "as created" ]

RoleRows ==
    { Role(RoleAdmin, "Admin", ROOT_ROLE_TYPE),
      Role(RoleEditor, "Editor", ROOT_ROLE_TYPE),
      Role(RoleMember, "Member", PROJECT_ROLE_TYPE),
      Role(RoleCustomRoot, "Ops", CUSTOM_ROOT_ROLE_TYPE),
      Role(RoleCustomProject, "Dev", CUSTOM_PROJECT_ROLE_TYPE) }

\* the tables role_user, group_user, groups, group_role and role_permission
DbBuiltIn ==
    [ roles |-> RoleRows,
      roleUser |-> { [ user_id |-> 1, role_id |-> RoleAdmin, project |-> DEFAULT_PROJECT ],
                     [ user_id |-> 2, role_id |-> RoleEditor, project |-> DEFAULT_PROJECT ],
                     [ user_id |-> 4, role_id |-> RoleMember, project |-> "p1" ] },
      groupUser |-> { [ group_id |-> 10, user_id |-> 3 ], [ group_id |-> 11, user_id |-> 5 ] },
      groups |-> { [ id |-> 10, root_role_id |-> Some(RoleAdmin) ],
                   [ id |-> 11, root_role_id |-> Undefined ] },
      groupRole |-> { [ group_id |-> 11, role_id |-> RoleMember, project |-> "p1" ] },
      rolePermission |->
          RolePermissions(RoleAdmin, { << ADMIN, Undefined >> })
          \cup RolePermissions(RoleEditor, { << "CREATE_ADDON", Undefined >>,
                                            << "CREATE_FEATURE", Undefined >>,
                                            << "UPDATE_FEATURE_ENVIRONMENT", Some("dev") >> })
          \cup RolePermissions(RoleMember, { << "CREATE_FEATURE", Undefined >>,
                                            << "UPDATE_FEATURE_ENVIRONMENT", Some("prod") >> }) ]

DbCustom ==
    [ roles |-> RoleRows,
      roleUser |-> { [ user_id |-> 1, role_id |-> RoleCustomRoot, project |-> DEFAULT_PROJECT ],
                     [ user_id |-> 2, role_id |-> RoleMember, project |-> DEFAULT_PROJECT ],
                     [ user_id |-> 4, role_id |-> RoleAdmin, project |-> "p1" ] },
      groupUser |-> { [ group_id |-> 10, user_id |-> 3 ], [ group_id |-> 11, user_id |-> 5 ],
                      [ group_id |-> 12, user_id |-> 5 ] },
      groups |-> { [ id |-> 10, root_role_id |-> Some(RoleEditor) ],
                   [ id |-> 11, root_role_id |-> Undefined ],
                   [ id |-> 12, root_role_id |-> Undefined ] },
      groupRole |-> { [ group_id |-> 10, role_id |-> RoleCustomRoot, project |-> "p2" ],
                      [ group_id |-> 12, role_id |-> RoleAdmin, project |-> "p1" ] },
      rolePermission |->
          RolePermissions(RoleAdmin, { << ADMIN, Undefined >> })
          \cup RolePermissions(RoleCustomRoot, { << ADMIN, Some("dev") >>,
                                                << "CREATE_ADDON", Undefined >> })
          \cup RolePermissions(RoleEditor, { << "CREATE_ADDON", Undefined >>,
                                            << "CREATE_FEATURE", Undefined >> })
          \cup RolePermissions(RoleMember, { << "CREATE_FEATURE", Undefined >>,
                                            << "UPDATE_FEATURE_ENVIRONMENT", Some("prod") >> }) ]

Dbs == { DbBuiltIn, DbCustom }

\* the tables as the role operations find them: user 1 is Admin and Member of
\* the default project, user 2 holds the custom root role and is Member of p1;
\* the custom project role is assigned to nobody
DbRoles ==
    [ roles |-> RoleRows,
      roleUser |-> { [ user_id |-> 1, role_id |-> RoleAdmin, project |-> DEFAULT_PROJECT ],
                     [ user_id |-> 1, role_id |-> RoleMember, project |-> DEFAULT_PROJECT ],
                     [ user_id |-> 2, role_id |-> RoleCustomRoot, project |-> DEFAULT_PROJECT ],
                     [ user_id |-> 2, role_id |-> RoleMember, project |-> "p1" ] },
      groupUser |-> { [ group_id |-> 10, user_id |-> 2 ] },
      groups |-> { [ id |-> 10, root_role_id |-> Undefined ] },
      groupRole |-> {},
      rolePermission |->
          RolePermissions(RoleAdmin, { << ADMIN, Undefined >> })
          \cup RolePermissions(RoleEditor, { << "CREATE_ADDON", Undefined >> })
          \cup RolePermissions(RoleMember, { << "CREATE_FEATURE", Undefined >> })
          \cup RolePermissions(RoleCustomRoot, { << "CREATE_ADDON", Undefined >> })
          \cup RolePermissions(RoleCustomProject,
                               { << "UPDATE_FEATURE_ENVIRONMENT", Some("dev") >> }) ]

\* access-store.ts, lines 202 to 251: the rows of the three queries, united
PermissionRows(userId) ==
    { [ project |-> Some(ur.project), permission |-> rp.permission,
        environment |-> rp.environment, type |-> PermissionType[rp.permission],
        role_id |-> ur.role_id ] :
        << ur, rp >> \in { x \in db.roleUser \X db.rolePermission :
                            x[1].role_id = x[2].role_id /\ x[1].user_id = userId } }
    \cup
    { [ project |-> Some(y[2].project), permission |-> y[3].permission,
        environment |-> y[3].environment, type |-> PermissionType[y[3].permission],
        role_id |-> y[2].role_id ] :
        y \in { x \in db.groupUser \X db.groupRole \X db.rolePermission :
                  /\ \E g \in db.groups : g.id = x[1].group_id
                  /\ x[1].group_id = x[2].group_id
                  /\ x[3].role_id = x[2].role_id
                  /\ x[1].user_id = userId } }
    \cup
    { [ project |-> Some("default"), permission |-> z[3].permission,
        environment |-> z[3].environment, type |-> PermissionType[z[3].permission],
        role_id |-> z[2].root_role_id.val ] :
        z \in { x \in db.groupUser \X db.groups \X db.rolePermission :
                  /\ x[2].id = x[1].group_id
                  /\ x[2].root_role_id.some
                  /\ x[3].role_id = x[2].root_role_id.val
                  /\ x[1].user_id = userId } }

\* a mutation of mapUserPermission: the project of the row is kept for every type
mapUserPermissionKeepingProject(row) ==
    [ project |-> row.project,
      environment |-> IF row.type = ENVIRONMENT_PERMISSION_TYPE
                      THEN row.environment ELSE Undefined,
      permission |-> row.permission ]

\* access-store.ts, lines 257 to 276
mapUserPermission(row) ==
    [ project |-> IF row.type # ROOT_PERMISSION_TYPE THEN row.project ELSE Undefined,
      environment |-> IF row.type = ENVIRONMENT_PERMISSION_TYPE
                      THEN row.environment ELSE Undefined,
      permission |-> row.permission ]

\* AccessStore.getPermissionsForUser: the rows, mapped
StorePermissionsForUser(userId) == { mapUserPermission(row) : row \in PermissionRows(userId) }

\* AccessService.getPermissionsForUser: undefined for an API user with no permissions
getPermissionsForUser(user) ==
    IF user.isAPI
    THEN IF user.permissions.some
         THEN Some({ [ project |-> Undefined, environment |-> Undefined,
                       permission |-> pm ] : pm \in Range(user.permissions.val) })
         ELSE Undefined
    ELSE Some(StorePermissionsForUser(user.id))

\* a mutation of PermissionGranted: the environment of a permission is not looked at
PermissionGrantedAnyEnvironment(userP, permissionsArray, projectId, environment) ==
    \E pm \in userP :
        /\ \/ ~pm.project.some
           \/ pm.project = projectId
           \/ pm.project = Some(ALL_PROJECTS)
        /\ \/ pm.permission \in Range(permissionsArray)
           \/ pm.permission = ADMIN

\* lines 165 to 183: the two filters and some
PermissionGranted(userP, permissionsArray, projectId, environment) ==
    \E pm \in userP :
        /\ \/ ~pm.project.some
           \/ pm.project = projectId
           \/ pm.project = Some(ALL_PROJECTS)
        /\ \/ ~pm.environment.some
           \/ pm.environment = environment
           \/ pm.environment = Some(ALL_ENVS)
        /\ \/ pm.permission \in Range(permissionsArray)
           \/ pm.permission = ADMIN

\* who may call hasPermission: the users of the tables, and API tokens
Callers ==
    [ id : 1..6, isAPI : { FALSE }, permissions : { Undefined } ]
    \cup [ id : { -1 }, isAPI : { TRUE },
           permissions : { Undefined, Some(<< ADMIN >>), Some(<< "CLIENT" >>),
                           Some(<< "CREATE_FEATURE", ADMIN >>) } ]

\* permission: a string, or an array of strings
RequestedPermissions ==
    { [ array |-> FALSE, vals |-> << "CREATE_FEATURE" >> ],
      [ array |-> FALSE, vals |-> << "DELETE_FEATURE" >> ],
      [ array |-> FALSE, vals |-> << ADMIN >> ],
      [ array |-> TRUE, vals |-> << "UPDATE_FEATURE_ENVIRONMENT", "CREATE_ADDON" >> ],
      [ array |-> TRUE, vals |-> << >> ] }

RequestedProjects == { Undefined, Some(DEFAULT_PROJECT), Some("p1"), Some("p2") }
RequestedEnvironments == { Undefined, Some("dev"), Some("prod") }

NoCheck == [ pc |-> "idle" ]

\* no role operation is running
NoOp == [ op |-> "none", pc |-> "idle" ]

\* the group service was not called
NoGroups == [ groups |-> {}, events |-> << >>, calls |-> << >> ]

(***************************************************************************)
(* The state machine.                                                      *)
(***************************************************************************)
Advanced == "evaluateAdvancedQuery"
Simple == "evaluateQuery"

\* a context with no multi-valued field, as evaluateQuery takes it
SingleContexts == { t \in Templates : \A i \in DOMAIN t : ~t[i].multi }
Unwrap(template) == generateObjectCombinations(template)[1]

\* what privateProjectChecker.getUserAccessibleProjects answers
AccessAll == [ mode |-> "all", projects |-> << >> ]
AccessLimited(projects) == [ mode |-> "limited", projects |-> projects ]

Calls ==
    [ kind : { Advanced }, projects : { ALL }, environments : EnvironmentLists,
      context : Templates, limit : 0..MaxLimit,
      privateProjects : { FALSE }, projectAccess : { AccessAll } ]
    \cup
    [ kind : { Advanced },
      projects : { ALL, Projects(<< "p1" >>), Projects(<< "p2", "p1" >>),
                   Projects(<< "p2" >>) },
      environments : { << "dev" >>, << "dev", "prod" >> },
      context : { TemplateOne }, limit : { MaxLimit },
      privateProjects : BOOLEAN,
      projectAccess : { AccessAll, AccessLimited(<< "p1" >>), AccessLimited(<< >>),
                        AccessLimited(<< "p1", "p3" >>) } ]
    \cup
    [ kind : { Simple }, projects : { ALL },
      environments : { << e >> : e \in Environments },
      context : SingleContexts, limit : { 0 },
      privateProjects : { FALSE }, projectAccess : { AccessAll } ]

\* a mutation of FilteredProjects: the projects asked for, whatever the access
FilteredProjectsRequested == call.projects

\* lines 104 to 119: the projects whose features are resolved
FilteredProjects ==
    IF ~call.privateProjects THEN call.projects
    ELSE IF call.projectAccess.mode = "all" THEN call.projects
    ELSE IF call.projects = ALL THEN Projects(call.projectAccess.projects)
    ELSE Projects(SelectSeq(call.projects.list,
                            LAMBDA project : project \in Range(call.projectAccess.projects)))

NoEvaluation ==
    [ result |-> "none", strategies |-> << >>, variants |-> Undefined,
      hasUnsatisfiedDependency |-> FALSE, error |-> "none" ]

Idle ==
    [ task |-> 0, fi |-> 0, phase |-> "Idle", stack |-> << >>, unsatisfied |-> FALSE,
      cyclic |-> FALSE, evaluation |-> NoEvaluation, isEnabled |-> FALSE,
      pending |-> FALSE, items |-> << >>, second |-> << >> ]

NoOutput == [ status |-> "none" ]

Init ==
    /\ call \in Calls
    /\ store \in Stores
    /\ pc = "start"
    /\ environmentFeatures = << >>
    /\ contexts = << >>
    /\ results = << >>
    /\ cur = Idle
    /\ out = NoOutput
    /\ engineLog = {}
    /\ variantCalls = {}
    /\ evalCalls = 0
    /\ selections = {}
    /\ db = DbBuiltIn
    /\ perm = NoCheck
    /\ ops = NoOp
    /\ grp = NoGroups

\* the evaluation that is running, and the feature it is at
Input == results[cur.task].input
CurrentFeature == Input.features[cur.fi]
CurrentKey ==
    [ environment |-> Input.environment, context |-> Input.context,
      name |-> CurrentFeature.name ]
FeatureNamed(name) ==
    CHOOSE f \in Range(Input.features) : f.name = name

\* the promises of line 135 as evaluate leaves them before its first await: an
\* evaluation over no feature has returned [] already (line 174)
StartedEvaluations(inputs) ==
    [ t \in DOMAIN inputs |->
        [ input |-> inputs[t], done |-> inputs[t].features = << >>, items |-> << >>,
          second |-> << >> ] ]

\* lines 123 and 266: evaluateAdvancedQuery resolves the filtered projects,
\* evaluateQuery the projects it was given
ResolvedProjects ==
    IF call.kind = Advanced THEN FilteredProjects ELSE call.projects

\* lines 121 to 125, and 265 to 268
ResolveFeatures ==
    /\ pc = "start"
    /\ environmentFeatures' =
           [ i \in DOMAIN call.environments |->
               resolveFeatures(ResolvedProjects, call.environments[i]) ]
    /\ pc' = "resolved"
    /\ UNCHANGED << call, store, contexts, results, cur, out, engineLog, variantCalls,
                    evalCalls, selections, accessVars >>

\* line 126
GenerateContexts ==
    /\ pc = "resolved"
    /\ call.kind = Advanced
    /\ contexts' = generateObjectCombinations(call.context)
    /\ pc' = "expanded"
    /\ UNCHANGED << call, store, environmentFeatures, results, cur, out, engineLog,
                    variantCalls, evalCalls, selections, accessVars >>

\* lines 128 to 133, the guard throws
RejectQuery ==
    /\ pc = "expanded"
    /\ validateQueryComplexity(QueryComplexity[1], QueryComplexity[2],
                               QueryComplexity[3], QueryComplexity[4])
    /\ pc' = "rejected"
    /\ out' = [ status |-> "error", error |-> "ComplexityExceededError",
                size |-> QueryComplexity[1] * QueryComplexity[2] * QueryComplexity[3],
                limit |-> QueryComplexity[4] ]
    /\ UNCHANGED << call, store, environmentFeatures, contexts, results, cur, engineLog,
                    variantCalls, evalCalls, selections, accessVars >>

\* lines 128 to 147, the guard returns and every evaluation is started
StartEvaluations ==
    /\ pc = "expanded"
    /\ ~validateQueryComplexity(QueryComplexity[1], QueryComplexity[2],
                                QueryComplexity[3], QueryComplexity[4])
    /\ \E inputs \in { EvaluationInputs } : results' = StartedEvaluations(inputs)
    /\ pc' = "evaluating"
    /\ UNCHANGED << call, store, environmentFeatures, contexts, cur, out, engineLog,
                    variantCalls, evalCalls, selections, accessVars >>

\* lines 270 to 276: evaluateQuery starts its one evaluation
StartEvaluation ==
    /\ pc = "resolved"
    /\ call.kind = Simple
    /\ contexts' = << Unwrap(call.context) >>
    /\ results' = StartedEvaluations(
                      << [ features |-> environmentFeatures[1].features,
                           featureProject |-> environmentFeatures[1].featureProject,
                           context |-> Unwrap(call.context),
                           environment |-> call.environments[1] ] >>)
    /\ pc' = "evaluating"
    /\ UNCHANGED << call, store, environmentFeatures, cur, out, engineLog, variantCalls,
                    evalCalls, selections, accessVars >>

\* lines 177 to 198: the client of one evaluation is ready, its features are mapped
ResumeEvaluation(t) ==
    /\ pc = "evaluating"
    /\ cur.task = 0
    /\ ~results[t].done
    /\ cur' = [ Idle EXCEPT !.task = t, !.fi = 1, !.phase = "NotEvaluated" ]
    /\ UNCHANGED << call, store, pc, environmentFeatures, contexts, results, out,
                    engineLog, variantCalls, evalCalls, selections, accessVars >>

\* line 200: client.isEnabled is called, and begins with the dependencies
CallIsEnabled ==
    /\ cur.phase = "NotEvaluated"
    /\ cur' = [ cur EXCEPT !.phase = "DependencyCheck",
                           !.stack = << [ feature |-> CurrentFeature, next |-> 1,
                                          unsatisfied |-> FALSE ] >> ]
    /\ evalCalls' = evalCalls + 1
    /\ UNCHANGED << call, store, pc, environmentFeatures, contexts, results, out,
                    engineLog, variantCalls, selections, accessVars >>

\* a mutation of OnResolutionPath: only the feature itself is looked at
IsFeatureBeingResolved(name, stack) == stack[Len(stack)].feature.name = name

\* the visited set of a dependency resolution: the features being resolved
OnResolutionPath(name, stack) == \E i \in DOMAIN stack : stack[i].feature.name = name

Top == cur.stack[Len(cur.stack)]
TopDependency == Top.feature.dependencies[Top.next]
DependenciesLeft == Top.next <= Len(Top.feature.dependencies)

\* 4.3: the next dependency of the feature being resolved is a cycle
DetectCycle ==
    /\ cur.phase = "DependencyCheck"
    /\ ~cur.cyclic
    /\ cur.stack # << >>
    /\ DependenciesLeft
    /\ OnResolutionPath(TopDependency.feature, cur.stack)
    /\ cur' = [ cur EXCEPT !.cyclic = TRUE, !.stack = << >> ]
    /\ UNCHANGED << call, store, pc, environmentFeatures, contexts, results, out,
                    engineLog, variantCalls, evalCalls, selections, accessVars >>

\* 4.3: the next dependency is no feature of the evaluation: it is not enabled
SkipMissingDependency ==
    /\ cur.phase = "DependencyCheck"
    /\ cur.stack # << >>
    /\ DependenciesLeft
    /\ ~OnResolutionPath(TopDependency.feature, cur.stack)
    /\ TopDependency.feature \notin { f.name : f \in Range(Input.features) }
    /\ cur' = [ cur EXCEPT
                  !.stack[Len(cur.stack)].next = @ + 1,
                  !.stack[Len(cur.stack)].unsatisfied = @ \/ TopDependency.enabled ]
    /\ UNCHANGED << call, store, pc, environmentFeatures, contexts, results, out,
                    engineLog, variantCalls, evalCalls, selections, accessVars >>

\* 4.3: the next dependency is evaluated first, recursively
EnterDependency ==
    /\ cur.phase = "DependencyCheck"
    /\ cur.stack # << >>
    /\ DependenciesLeft
    /\ ~OnResolutionPath(TopDependency.feature, cur.stack)
    /\ TopDependency.feature \in { f.name : f \in Range(Input.features) }
    /\ Len(cur.stack) < MaxDepth
    /\ cur' = [ cur EXCEPT
                  !.stack = Append(@, [ feature |-> FeatureNamed(TopDependency.feature),
                                        next |-> 1, unsatisfied |-> FALSE ]) ]
    /\ UNCHANGED << call, store, pc, environmentFeatures, contexts, results, out,
                    engineLog, variantCalls, evalCalls, selections, accessVars >>

\* whether a dependency, evaluated, is not in the state its dependant requires
DependencyMismatch(required, feature, evaluation, variant) ==
    LET enabled == /\ evaluation.result = "true"
                   /\ feature.enabled
                   /\ ~evaluation.hasUnsatisfiedDependency
    IN  \/ enabled # required.enabled
        \/ /\ required.enabled
           /\ required.variants # {}
           /\ variant.name \notin required.variants

\* 4.3: a dependency has been evaluated; its dependant goes on
LeaveDependency ==
    /\ cur.phase = "DependencyCheck"
    /\ Len(cur.stack) > 1
    /\ ~DependenciesLeft
    /\ \E seed \in RandomSeeds, ctx \in { ClientContext(Input.context) } :
        \E evaluation \in { FeatureStrategiesEvaluationResult(
                                Top.feature, ActiveSegments, ctx, Top.unsatisfied, FALSE) } :
        \E variant \in { forceGetVariant(Top.feature, evaluation, ctx, seed) } :
        LET parent == cur.stack[Len(cur.stack) - 1]
            required == parent.feature.dependencies[parent.next]
            mismatch == DependencyMismatch(required, Top.feature, evaluation, variant)
        IN  /\ cur' = [ cur EXCEPT
                          !.stack = [ i \in 1..(Len(cur.stack) - 1) |->
                                        IF i < Len(cur.stack) - 1 THEN cur.stack[i]
                                        ELSE [ parent EXCEPT
                                                 !.next = @ + 1,
                                                 !.unsatisfied = @ \/ mismatch ] ] ]
            /\ selections' = selections \cup
                    { Selection("dependency", Top.feature, Input.environment, evaluation,
                                ctx, variant) }
    /\ UNCHANGED << call, store, pc, environmentFeatures, contexts, results, out,
                    engineLog, variantCalls, evalCalls, accessVars >>

\* 4.3 then 4.2: the dependencies are settled, the feature's own strategies follow
EvaluateStrategies ==
    /\ cur.phase = "DependencyCheck"
    /\ \/ cur.cyclic
       \/ Len(cur.stack) = 1 /\ ~DependenciesLeft
    /\ cur' = [ cur EXCEPT
                  !.phase = "StrategyEvaluation",
                  !.unsatisfied = IF cur.cyclic THEN FALSE ELSE Top.unsatisfied,
                  !.stack = << >> ]
    /\ UNCHANGED << call, store, pc, environmentFeatures, contexts, results, out,
                    engineLog, variantCalls, evalCalls, selections, accessVars >>

\* the state of an evaluation once isEnabled is known
Outcome(isEnabled, evaluation) ==
    IF isEnabled THEN "Enabled"
    ELSE IF evaluation.result = "unknown" /\ ~evaluation.hasUnsatisfiedDependency
    THEN "Unknown"
    ELSE "Disabled"

\* lines 199 to 217 and 224 to 232: client.isEnabled returns, isEnabled is
\* computed, and a result that needs no selected variant is built
Decide ==
    /\ cur.phase = "StrategyEvaluation"
    /\ \E evaluation \in { FeatureStrategiesEvaluationResult(
                                CurrentFeature, ActiveSegments, ClientContext(Input.context),
                                cur.unsatisfied, cur.cyclic) } :
       \E isEnabled \in { IsEnabled(evaluation, CurrentFeature) } :
       \E gate \in { VariantGate(isEnabled, evaluation) } :
       \E item \in { EvaluationItem(Input, CurrentFeature, evaluation, isEnabled,
                                     VariantWhenNotEnabled) } :
           /\ cur' = [ cur EXCEPT
                         !.phase = Outcome(isEnabled, evaluation),
                         !.evaluation = evaluation,
                         !.isEnabled = isEnabled,
                         !.pending = gate,
                         !.items = IF gate THEN @ ELSE Append(@, item),
                         !.second = IF gate THEN @ ELSE Append(@, item) ]
           /\ engineLog' = engineLog \cup { [ key |-> CurrentKey, evaluation |-> evaluation ] }
    /\ UNCHANGED << call, store, pc, environmentFeatures, contexts, results, out,
                    variantCalls, evalCalls, selections, accessVars >>

\* lines 218 to 223: client.forceGetVariant selects the variant; second is what
\* a second evaluation of the same input builds, drawing for itself
AssignVariant ==
    /\ cur.phase \in { "Enabled", "Disabled", "Unknown" }
    /\ cur.pending
    /\ \E seed \in RandomSeeds, again \in RandomSeeds :
        \E ctx \in { ClientContext(Input.context) } :
        \E variant \in { forceGetVariant(CurrentFeature, cur.evaluation, ctx, seed) } :
        \E other \in { forceGetVariant(CurrentFeature, cur.evaluation, ctx, again) } :
        /\ cur' = [ cur EXCEPT
                      !.phase = "VariantAssigned",
                      !.pending = FALSE,
                      !.items = Append(@, EvaluationItem(Input, CurrentFeature,
                                                         cur.evaluation, cur.isEnabled,
                                                         variant)),
                      !.second = Append(@, EvaluationItem(Input, CurrentFeature,
                                                          cur.evaluation, cur.isEnabled,
                                                          other)) ]
        /\ selections' = selections \cup
                { Selection("first", CurrentFeature, Input.environment, cur.evaluation,
                            ctx, variant),
                  Selection("second", CurrentFeature, Input.environment, cur.evaluation,
                            ctx, other) }
    /\ variantCalls' = variantCalls \cup { CurrentKey }
    /\ UNCHANGED << call, store, pc, environmentFeatures, contexts, results, out,
                    engineLog, evalCalls, accessVars >>

Terminal ==
    /\ cur.phase \in { "Disabled", "Unknown", "VariantAssigned" }
    /\ ~cur.pending

\* line 198: map goes on to the next feature
NextFeature ==
    /\ Terminal
    /\ cur.fi < Len(Input.features)
    /\ cur' = [ cur EXCEPT !.fi = @ + 1, !.phase = "NotEvaluated",
                           !.unsatisfied = FALSE, !.cyclic = FALSE,
                           !.evaluation = NoEvaluation, !.isEnabled = FALSE ]
    /\ UNCHANGED << call, store, pc, environmentFeatures, contexts, results, out,
                    engineLog, variantCalls, evalCalls, selections, accessVars >>

\* line 196: evaluate returns the results of its features
FinishEvaluation ==
    /\ Terminal
    /\ cur.fi = Len(Input.features)
    /\ results' = [ results EXCEPT
                      ![cur.task] = [ done |-> TRUE, items |-> cur.items,
                                      second |-> cur.second ] ]
    /\ cur' = Idle
    /\ UNCHANGED << call, store, pc, environmentFeatures, contexts, out, engineLog,
                    variantCalls, evalCalls, selections, accessVars >>

AllDone == \A t \in DOMAIN results : results[t].done

\* line 135: Promise.all answers in the order of the promises it was given
CollectedResults == [ t \in DOMAIN results |-> results[t].items ]

\* lines 149 to 161: every evaluation has returned, the report is built
ReturnReport ==
    /\ pc = "evaluating"
    /\ call.kind = Advanced
    /\ cur.task = 0
    /\ AllDone
    /\ \E items \in { FlatSeq(CollectedResults) } :
          out' = [ status |-> "ok", value |-> GroupedReport(items) ]
    /\ pc' = "done"
    /\ UNCHANGED << call, store, environmentFeatures, contexts, results, cur, engineLog,
                    variantCalls, evalCalls, selections, accessVars >>

\* line 278: evaluateQuery returns
ReturnResults ==
    /\ pc = "evaluating"
    /\ call.kind = Simple
    /\ cur.task = 0
    /\ AllDone
    /\ out' = [ status |-> "ok",
                value |-> [ i \in DOMAIN results[1].items |-> omitKeys(results[1].items[i]) ] ]
    /\ pc' = "done"
    /\ UNCHANGED << call, store, environmentFeatures, contexts, results, cur, engineLog,
                    variantCalls, evalCalls, selections, accessVars >>

Next ==
    \/ ResolveFeatures
    \/ GenerateContexts
    \/ RejectQuery
    \/ StartEvaluations
    \/ StartEvaluation
    \/ \E t \in DOMAIN results : ResumeEvaluation(t)
    \/ CallIsEnabled
    \/ DetectCycle
    \/ SkipMissingDependency
    \/ EnterDependency
    \/ LeaveDependency
    \/ EvaluateStrategies
    \/ Decide
    \/ AssignVariant
    \/ NextFeature
    \/ FinishEvaluation
    \/ ReturnReport
    \/ ReturnResults

Spec == Init /\ [][Next]_vars

\* every step of a call is taken in the end: the event loop runs what is ready
FairSpec == Spec /\ WF_vars(Next)

(***************************************************************************)
(* AccessService.hasPermission as a state machine.                         *)
(***************************************************************************)
\* no call of the playground is running
NoCall == [ kind |-> "none", projects |-> ALL, environments |-> << >>,
            context |-> << >>, limit |-> 0, privateProjects |-> FALSE,
            projectAccess |-> AccessAll ]

AccessInit ==
    /\ call = NoCall
    /\ store = StorePlain
    /\ pc = "idle"
    /\ environmentFeatures = << >>
    /\ contexts = << >>
    /\ results = << >>
    /\ cur = Idle
    /\ out = NoOutput
    /\ engineLog = {}
    /\ variantCalls = {}
    /\ evalCalls = 0
    /\ selections = {}
    /\ db \in Dbs
    /\ perm = NoCheck
    /\ ops = NoOp
    /\ grp = NoGroups

\* lines 144 to 161: hasPermission is called
HasPermission ==
    /\ perm.pc = "idle"
    /\ \E user \in Callers, permission \in RequestedPermissions,
          projectId \in RequestedProjects, environment \in RequestedEnvironments :
          perm' = [ pc |-> "called", user |-> user, permission |-> permission,
                    permissionsArray |-> permission.vals,
                    projectId |-> projectId, environment |-> environment ]
    /\ UNCHANGED << playgroundVars, db, ops, grp >>

\* line 164: the permissions of the user are there
GetPermissionsForUser ==
    /\ perm.pc = "called"
    /\ perm' = [ perm EXCEPT !.pc = "fetched" ] @@
                [ userP |-> getPermissionsForUser(perm.user) ]
    /\ UNCHANGED << playgroundVars, db, ops, grp >>

\* line 164: the access store throws
GetPermissionsForUserThrows ==
    /\ perm.pc = "called"
    /\ ~perm.user.isAPI
    /\ perm' = [ perm EXCEPT !.pc = "thrown" ]
    /\ UNCHANGED << playgroundVars, db, ops, grp >>

\* lines 165 to 183: the permissions are filtered and the answer returned
ReturnPermission ==
    /\ perm.pc = "fetched"
    /\ perm.userP.some
    /\ perm' = [ perm EXCEPT !.pc = "returned" ] @@
                [ result |-> PermissionGranted(perm.userP.val, perm.permissionsArray,
                                               perm.projectId, perm.environment),
                  logged |-> FALSE ]
    /\ UNCHANGED << playgroundVars, db, ops, grp >>

\* lines 183 to 189: an error of the store, or of filtering undefined, is caught
CatchPermissionError ==
    /\ \/ perm.pc = "thrown"
       \/ perm.pc = "fetched" /\ ~perm.userP.some
    /\ perm' = [ perm EXCEPT !.pc = "returned" ] @@ [ result |-> FALSE, logged |-> TRUE ]
    /\ UNCHANGED << playgroundVars, db, ops, grp >>

AccessNext ==
    \/ HasPermission
    \/ GetPermissionsForUser
    \/ GetPermissionsForUserThrows
    \/ ReturnPermission
    \/ CatchPermissionError

AccessSpec == AccessInit /\ [][AccessNext]_vars

(***************************************************************************)
(* The role operations of AccessService (access-service.ts) over the       *)
(* tables of AccessStore (access-store.ts).                                *)
(***************************************************************************)
\* AccessStore.get: the row of the role, none when there is no such role
get(key) == { r \in db.roles : r.id = key }

\* a mutation of validateRoleIsNotBuiltIn: only the root type counts as built-in
validateRoleIsNotBuiltInRootOnly(roleId) ==
    IF get(roleId) = {} THEN "NotFoundError"
    ELSE IF \E role \in get(roleId) : role.type = ROOT_ROLE_TYPE
    THEN "InvalidOperationError"
    ELSE "none"

\* access-service.ts, lines 718 to 728: the error thrown, "none" when it returns
validateRoleIsNotBuiltIn(roleId) ==
    IF get(roleId) = {} THEN "NotFoundError"
    ELSE IF \E role \in get(roleId) :
                /\ role.type # CUSTOM_PROJECT_ROLE_TYPE
                /\ role.type # CUSTOM_ROOT_ROLE_TYPE
    THEN "InvalidOperationError"
    ELSE "none"

\* access-store.ts, lines 403 to 417
getUserIdsForRole(roleId) == { r.user_id : r \in { x \in db.roleUser : x.role_id = roleId } }
getGroupIdsForRole(roleId) == { r.group_id : r \in { x \in db.groupRole : x.role_id = roleId } }

\* the ids of the roles of some types
RoleIdsOfTypes(types) == { r.id : r \in { x \in db.roles : x.type \in types } }

\* access-store.ts, lines 772 to 785: the table role_user afterwards
removeRolesOfTypeForUser(userId, roleTypes) ==
    { ru \in db.roleUser :
        ~(ru.user_id = userId /\ ru.role_id \in RoleIdsOfTypes(roleTypes)) }

\* access-store.ts, lines 466 to 479: insert, a row that is there is left alone
addUserToRole(userId, roleId, projectId) ==
    db.roleUser \cup { [ user_id |-> userId, role_id |-> roleId, project |-> projectId ] }

\* access-store.ts, lines 495 to 507
addGroupToRole(groupId, roleId, projectId) ==
    db.groupRole \cup { [ group_id |-> groupId, role_id |-> roleId, project |-> projectId ] }

\* access-store.ts, lines 523 to 538: one UPDATE of the rows of the user in the
\* project whose role is not of type 'root'; the statement fails as a whole when
\* two rows would become the same (user_id, role_id, project)
updateUserProjectRole(userId, roleId, projectId) ==
    LET hit == { ru \in db.roleUser :
                   /\ ru.user_id = userId
                   /\ ru.project = projectId
                   /\ ru.role_id \notin RoleIdsOfTypes({ ROOT_ROLE_TYPE }) }
        updated == [ user_id |-> userId, role_id |-> roleId, project |-> projectId ]
        conflict == \/ Cardinality(hit) > 1
                    \/ hit # {} /\ updated \in db.roleUser \ hit
    IN  IF conflict THEN [ ok |-> FALSE, roleUser |-> db.roleUser ]
        ELSE [ ok |-> TRUE,
               roleUser |-> (db.roleUser \ hit) \cup (IF hit = {} THEN {} ELSE { updated }) ]

\* access-store.ts, lines 742 to 755
removeUserAccess(projectId, userId) ==
    { ru \in db.roleUser :
        ~(/\ ru.user_id = userId
          /\ ru.project = projectId
          /\ ru.role_id \in RoleIdsOfTypes(PROJECT_ROLE_TYPES)) }

\* access-store.ts, lines 643 to 677
setProjectRolesForUser(projectId, userId, roles) ==
    LET projectRoleIds == RoleIdsOfTypes(PROJECT_ROLE_TYPES)
        userRows == { [ user_id |-> userId, project |-> projectId, role_id |-> role ] :
                        role \in { r \in roles : r \in projectRoleIds } }
    IN  { ru \in db.roleUser :
            ~(/\ ru.project = projectId
              /\ ru.user_id = userId
              /\ ru.role_id \in projectRoleIds) }
        \cup userRows

\* the arguments of the role operations
RoleUsers == { 1, 2 }
RoleProjects == { DEFAULT_PROJECT, "p1" }
RoleIds == { r.id : r \in RoleRows }
ProjectRoleLists == { {}, { RoleCustomProject }, { RoleMember, RoleEditor },
                      { RoleCustomRoot, RoleCustomProject } }

\* the role of an updateRole call; valid says whether roleSchema accepts it
RoleUpdates ==
    [ id : RoleIds, name : { "Dev", "Lead" }, description : { "changed" },
      type : { "custom", "root-custom" },
      permissions : { Undefined, Some({ << "CREATE_FEATURE", Undefined >> }) },
      valid : BOOLEAN ]

RoleInit ==
    /\ call = NoCall
    /\ store = StorePlain
    /\ pc = "idle"
    /\ environmentFeatures = << >>
    /\ contexts = << >>
    /\ results = << >>
    /\ cur = Idle
    /\ out = NoOutput
    /\ engineLog = {}
    /\ variantCalls = {}
    /\ evalCalls = 0
    /\ selections = {}
    /\ db = DbRoles
    /\ perm = NoCheck
    /\ ops = NoOp
    /\ grp = NoGroups

\* line 332: setUserRootRole is called
SetUserRootRole ==
    /\ ops.pc = "idle"
    /\ \E userId \in RoleUsers, role \in RoleIds \cup { RoleUnknown } :
          ops' = [ op |-> "setUserRootRole", pc |-> "resolving", userId |-> userId,
                   role |-> role, error |-> "none", before |-> db ]
    /\ UNCHANGED << playgroundVars, db, perm, grp >>

\* lines 336, 337 and 355, with resolveRootRole (586 to 597)
ResolveRootRole ==
    /\ ops.op = "setUserRootRole"
    /\ ops.pc = "resolving"
    /\ LET rootRoles == { r \in db.roles : r.type \in ROOT_ROLE_TYPES }
           found == { r \in rootRoles : r.id = ops.role }
       IN  IF found # {}
           THEN ops' = [ ops EXCEPT !.pc = "removing" ]
           ELSE ops' = [ ops EXCEPT !.pc = "failed", !.error = "BadDataError" ]
    /\ UNCHANGED << playgroundVars, db, perm, grp >>

\* lines 339 to 342
RemoveRootRoles ==
    /\ ops.op = "setUserRootRole"
    /\ ops.pc = "removing"
    /\ db' = [ db EXCEPT !.roleUser = removeRolesOfTypeForUser(ops.userId, ROOT_ROLE_TYPES) ]
    /\ ops' = [ ops EXCEPT !.pc = "adding" ]
    /\ UNCHANGED << playgroundVars, perm, grp >>

\* lines 344 to 348
AddRootRole ==
    /\ ops.op = "setUserRootRole"
    /\ ops.pc = "adding"
    /\ db' = [ db EXCEPT !.roleUser = addUserToRole(ops.userId, ops.role, DEFAULT_PROJECT) ]
    /\ ops' = [ ops EXCEPT !.pc = "done" ]
    /\ UNCHANGED << playgroundVars, perm, grp >>

\* lines 349 to 353: the store rejects the delete or the insert, the error is
\* logged and thrown again
RootRoleStoreThrows ==
    /\ ops.op = "setUserRootRole"
    /\ ops.pc \in { "removing", "adding" }
    /\ ops' = [ ops EXCEPT !.pc = "failed", !.error = "Error" ]
    /\ UNCHANGED << playgroundVars, db, perm, grp >>

\* line 690: deleteRole is called
DeleteRole ==
    /\ ops.pc = "idle"
    /\ \E id \in RoleIds \cup { RoleUnknown } :
          ops' = [ op |-> "deleteRole", pc |-> "validating", id |-> id, error |-> "none",
                   before |-> db, roleUsers |-> {}, roleGroups |-> {} ]
    /\ UNCHANGED << playgroundVars, db, perm, grp >>

\* line 691
DeleteRoleValidate ==
    /\ ops.op = "deleteRole"
    /\ ops.pc = "validating"
    /\ \E error \in { validateRoleIsNotBuiltIn(ops.id) } :
          IF error = "none"
          THEN ops' = [ ops EXCEPT !.pc = "readingUsers" ]
          ELSE ops' = [ ops EXCEPT !.pc = "failed", !.error = error ]
    /\ UNCHANGED << playgroundVars, db, perm, grp >>

\* line 693, with getUsersForRole (475 to 481)
GetUsersForRole ==
    /\ ops.op = "deleteRole"
    /\ ops.pc = "readingUsers"
    /\ ops' = [ ops EXCEPT !.pc = "readingGroups", !.roleUsers = getUserIdsForRole(ops.id) ]
    /\ UNCHANGED << playgroundVars, db, perm, grp >>

\* line 694, with getGroupsForRole (483 to 489)
GetGroupsForRole ==
    /\ ops.op = "deleteRole"
    /\ ops.pc = "readingGroups"
    /\ ops' = [ ops EXCEPT !.pc = "deciding", !.roleGroups = getGroupIdsForRole(ops.id) ]
    /\ UNCHANGED << playgroundVars, db, perm, grp >>

\* lines 696 to 702: RoleInUseError, or the role is deleted from the table roles
DeleteRoleDecide ==
    /\ ops.op = "deleteRole"
    /\ ops.pc = "deciding"
    /\ IF ops.roleUsers # {} \/ ops.roleGroups # {}
       THEN /\ ops' = [ ops EXCEPT !.pc = "failed", !.error = "RoleInUseError" ]
            /\ UNCHANGED db
       ELSE /\ ops' = [ ops EXCEPT !.pc = "done" ]
            /\ db' = [ db EXCEPT !.roles = { r \in db.roles : r.id # ops.id } ]
    /\ UNCHANGED << playgroundVars, perm, grp >>

\* another request assigns the role being deleted to a user, while deleteRole
\* awaits (access-store.ts, 466 to 479)
AddUserToRole ==
    /\ ops.op = "deleteRole"
    /\ ops.pc \in { "readingUsers", "readingGroups", "deciding" }
    /\ get(ops.id) # {}
    /\ db' = [ db EXCEPT !.roleUser = addUserToRole(2, ops.id, "p1") ]
    /\ db' # db
    /\ UNCHANGED << playgroundVars, perm, ops, grp >>

\* another request assigns the role being deleted to a group (495 to 507)
AddGroupToRole ==
    /\ ops.op = "deleteRole"
    /\ ops.pc \in { "readingUsers", "readingGroups", "deciding" }
    /\ get(ops.id) # {}
    /\ db' = [ db EXCEPT !.groupRole = addGroupToRole(10, ops.id, "p1") ]
    /\ db' # db
    /\ UNCHANGED << playgroundVars, perm, ops, grp >>

\* lines 649 to 662: updateRole is called; the kill switch of custom root roles
UpdateRole ==
    /\ ops.pc = "idle"
    /\ \E role \in RoleUpdates, killSwitch \in BOOLEAN :
          LET roleType == IF role.type = CUSTOM_ROOT_ROLE_TYPE
                          THEN CUSTOM_ROOT_ROLE_TYPE ELSE CUSTOM_PROJECT_ROLE_TYPE
          IN  ops' = [ op |-> "updateRole",
                       pc |-> IF roleType = CUSTOM_ROOT_ROLE_TYPE /\ killSwitch
                              THEN "failed" ELSE "validating",
                       error |-> IF roleType = CUSTOM_ROOT_ROLE_TYPE /\ killSwitch
                                 THEN "InvalidOperationError" ELSE "none",
                       id |-> role.id, role |-> role, roleType |-> roleType,
                       killSwitch |-> killSwitch, before |-> db ]
    /\ UNCHANGED << playgroundVars, db, perm, grp >>

\* line 664, with validateRole (730 to 740) and validateRoleIsUnique (705 to 716)
ValidateRole ==
    /\ ops.op = "updateRole"
    /\ ops.pc = "validating"
    /\ LET existingId == ops.role.id
           builtIn == IF existingId # 0 THEN validateRoleIsNotBuiltIn(existingId)
                      ELSE "none"
           nameInUse == \E r \in db.roles : r.name = ops.role.name /\ r.id # existingId
           error == IF ~ops.role.valid THEN "ValidationError"
                    ELSE IF builtIn # "none" THEN builtIn
                    ELSE IF nameInUse THEN "NameExistsError"
                    ELSE "none"
       IN  IF error = "none"
           THEN ops' = [ ops EXCEPT !.pc = "updating" ]
           ELSE ops' = [ ops EXCEPT !.pc = "failed", !.error = error ]
    /\ UNCHANGED << playgroundVars, db, perm, grp >>

\* lines 665 to 672: roleStore.update
RoleStoreUpdate ==
    /\ ops.op = "updateRole"
    /\ ops.pc = "updating"
    /\ db' = [ db EXCEPT !.roles =
                 { IF r.id = ops.role.id
                   THEN [ r EXCEPT !.name = ops.role.name,
                                   !.description = ops.role.description ]
                   ELSE r : r \in db.roles } ]
    /\ ops' = [ ops EXCEPT !.pc = IF ops.role.permissions.some THEN "permissions"
                                  ELSE "done" ]
    /\ UNCHANGED << playgroundVars, perm, grp >>

\* lines 673 to 686: the permissions of the role are wiped and written again
ReplacePermissions ==
    /\ ops.op = "updateRole"
    /\ ops.pc = "permissions"
    /\ db' = [ db EXCEPT !.rolePermission =
                 { rp \in db.rolePermission : rp.role_id # ops.role.id }
                 \cup RolePermissions(ops.role.id, ops.role.permissions.val) ]
    /\ ops' = [ ops EXCEPT !.pc = "done" ]
    /\ UNCHANGED << playgroundVars, perm, grp >>

\* AccessStore.updateUserProjectRole is called (523 to 538)
UpdateUserProjectRole ==
    /\ ops.pc = "idle"
    /\ \E userId \in RoleUsers, roleId \in { RoleMember, RoleCustomProject },
          projectId \in RoleProjects :
          \E answer \in { updateUserProjectRole(userId, roleId, projectId) } :
             /\ db' = [ db EXCEPT !.roleUser = answer.roleUser ]
             /\ ops' = [ op |-> "updateUserProjectRole",
                         pc |-> IF answer.ok THEN "done" ELSE "failed",
                         error |-> IF answer.ok THEN "none" ELSE "Error",
                         userId |-> userId, projectId |-> projectId, before |-> db ]
    /\ UNCHANGED << playgroundVars, perm, grp >>

\* AccessStore.removeUserAccess is called (742 to 755)
RemoveUserAccess ==
    /\ ops.pc = "idle"
    /\ \E userId \in RoleUsers, projectId \in RoleProjects :
          /\ db' = [ db EXCEPT !.roleUser = removeUserAccess(projectId, userId) ]
          /\ ops' = [ op |-> "removeUserAccess", pc |-> "done", error |-> "none",
                      userId |-> userId, projectId |-> projectId, before |-> db ]
    /\ UNCHANGED << playgroundVars, perm, grp >>

\* AccessStore.setProjectRolesForUser is called (643 to 677)
SetProjectRolesForUser ==
    /\ ops.pc = "idle"
    /\ \E userId \in RoleUsers, projectId \in RoleProjects, roles \in ProjectRoleLists :
          /\ db' = [ db EXCEPT !.roleUser = setProjectRolesForUser(projectId, userId, roles) ]
          /\ ops' = [ op |-> "setProjectRolesForUser", pc |-> "done", error |-> "none",
                      userId |-> userId, projectId |-> projectId, before |-> db ]
    /\ UNCHANGED << playgroundVars, perm, grp >>

RoleNext ==
    \/ SetUserRootRole
    \/ ResolveRootRole
    \/ RemoveRootRoles
    \/ AddRootRole
    \/ RootRoleStoreThrows
    \/ DeleteRole
    \/ DeleteRoleValidate
    \/ GetUsersForRole
    \/ GetGroupsForRole
    \/ DeleteRoleDecide
    \/ AddUserToRole
    \/ AddGroupToRole
    \/ UpdateRole
    \/ ValidateRole
    \/ RoleStoreUpdate
    \/ ReplacePermissions
    \/ UpdateUserProjectRole
    \/ RemoveUserAccess
    \/ SetProjectRolesForUser

RoleSpec == RoleInit /\ [][RoleNext]_vars

(***************************************************************************)
(* GroupService: createGroup, updateGroup and validateGroup                *)
(* (src/unnamed/part_000), called by two requests at a time.               *)
(***************************************************************************)
GROUP_CREATED == "GROUP_CREATED"
GROUP_UPDATED == "GROUP_UPDATED"

GroupCallers == { 1, 2 }
GroupNames == { "", "a", "c" }
GroupIds == { 1, 2, 3 }

\* a row of the table groups
Group(id, name) == [ id |-> id, name |-> name ]

NoGroupCall == [ op |-> "none", pc |-> "idle" ]

\* groupStore.existsWithName(name)
existsWithName(name) == \E g \in grp.groups : g.name = name

\* lines 183 to 196: the error validateGroup throws, "none" when it returns;
\* existingGroup is a set, empty when the argument is left out
validateGroup(group, existingGroup) ==
    IF group.name = "" THEN "BadDataError"
    ELSE IF (existingGroup = {} \/ \E g \in existingGroup : g.name # group.name)
            /\ existsWithName(group.name)
    THEN "NameExistsError"
    ELSE "none"

\* the id the table gives the next group
NextGroupId ==
    1 + (CHOOSE m \in { 0 } \cup { g.id : g \in grp.groups } :
            \A g \in grp.groups : g.id <= m)

GroupInit ==
    /\ call = NoCall
    /\ store = StorePlain
    /\ pc = "idle"
    /\ environmentFeatures = << >>
    /\ contexts = << >>
    /\ results = << >>
    /\ cur = Idle
    /\ out = NoOutput
    /\ engineLog = {}
    /\ variantCalls = {}
    /\ evalCalls = 0
    /\ selections = {}
    /\ db = DbBuiltIn
    /\ perm = NoCheck
    /\ ops = NoOp
    /\ grp = [ groups |-> { Group(1, "a"), Group(2, "b") },
               events |-> << >>,
               calls |-> [ p \in GroupCallers |-> NoGroupCall ] ]

\* line 83: createGroup is called
CreateGroup(p) ==
    /\ grp.calls[p].pc = "idle"
    /\ \E name \in GroupNames :
          grp' = [ grp EXCEPT !.calls[p] =
                     [ op |-> "createGroup", pc |-> "validating", error |-> "none",
                       group |-> [ name |-> name ], preData |-> {} ] ]
    /\ UNCHANGED << playgroundVars, db, perm, ops >>

\* lines 107 and 108: updateGroup is called and reads the group as it is
UpdateGroup(p) ==
    /\ grp.calls[p].pc = "idle"
    /\ \E id \in GroupIds, name \in GroupNames :
          LET preData == { g \in grp.groups : g.id = id }
          IN  grp' = [ grp EXCEPT !.calls[p] =
                         [ op |-> "updateGroup",
                           pc |-> IF preData = {} THEN "failed" ELSE "validating",
                           error |-> IF preData = {} THEN "NotFoundError" ELSE "none",
                           group |-> [ id |-> id, name |-> name ],
                           preData |-> preData ] ]
    /\ UNCHANGED << playgroundVars, db, perm, ops >>

\* lines 87 and 110: validateGroup is awaited
ValidateGroup(p) ==
    /\ grp.calls[p].pc = "validating"
    /\ \E error \in { validateGroup(grp.calls[p].group, grp.calls[p].preData) } :
          grp' = [ grp EXCEPT !.calls[p].pc = IF error = "none" THEN "storing" ELSE "failed",
                              !.calls[p].error = error ]
    /\ UNCHANGED << playgroundVars, db, perm, ops >>

\* lines 89 to 95: groupStore.create and addUsersToGroup
GroupStoreCreate(p) ==
    /\ grp.calls[p].op = "createGroup"
    /\ grp.calls[p].pc = "storing"
    /\ grp' = [ grp EXCEPT !.groups = @ \cup { Group(NextGroupId, grp.calls[p].group.name) },
                           !.calls[p].pc = "emitting" ]
    /\ UNCHANGED << playgroundVars, db, perm, ops >>

\* lines 112 to 133: groupStore.update and updateGroupUsers
GroupStoreUpdate(p) ==
    /\ grp.calls[p].op = "updateGroup"
    /\ grp.calls[p].pc = "storing"
    /\ grp' = [ grp EXCEPT !.groups = { IF g.id = grp.calls[p].group.id
                                        THEN Group(g.id, grp.calls[p].group.name)
                                        ELSE g : g \in @ },
                           !.calls[p].pc = "emitting" ]
    /\ UNCHANGED << playgroundVars, db, perm, ops >>

\* lines 97 to 103 and 135 to 141: the event is stored and the group returned
StoreGroupEvent(p) ==
    /\ grp.calls[p].pc = "emitting"
    /\ grp' = [ grp EXCEPT !.events =
                    Append(@, [ type |-> IF grp.calls[p].op = "createGroup"
                                         THEN GROUP_CREATED ELSE GROUP_UPDATED,
                                by |-> p,
                                name |-> grp.calls[p].group.name ]),
                           !.calls[p].pc = "done" ]
    /\ UNCHANGED << playgroundVars, db, perm, ops >>

GroupNext ==
    \E p \in GroupCallers :
        \/ CreateGroup(p)
        \/ UpdateGroup(p)
        \/ ValidateGroup(p)
        \/ GroupStoreCreate(p)
        \/ GroupStoreUpdate(p)
        \/ StoreGroupEvent(p)

GroupSpec == GroupInit /\ [][GroupNext]_vars

(***************************************************************************)
(* What the claims speak of.                                               *)
(***************************************************************************)
\* the results a finished call returned, one after another; evaluateQuery's carry
\* no environment and no context, which are those of the call
ReturnedItems ==
    IF out.status # "ok" THEN << >>
    ELSE IF call.kind = Simple
    THEN [ i \in DOMAIN out.value |->
             out.value[i] @@ [ environment |-> call.environments[1],
                               context |-> contexts[1] ] ]
    ELSE FlatSeq([ g \in DOMAIN out.value |->
                     FlatSeq([ e \in DOMAIN out.value[g].environments |->
                                 out.value[g].environments[e].entries ]) ])

\* every result built so far: by the running evaluation, by the finished ones,
\* and in what the call returned
ProducedItems ==
    Range(cur.items)
        \cup UNION { Range(results[t].items) : t \in DOMAIN results }
        \cup Range(ReturnedItems)

\* the definition of the feature a result is about
DefinitionOf(item) ==
    CHOOSE f \in Range(store[item.environment]) : f.name = item.name

KeyOf(item) ==
    [ environment |-> item.environment, context |-> item.context, name |-> item.name ]

\* the size of the request as the Complexity Guard measures it
RequestSize ==
    Len(call.environments)
        * (IF environmentFeatures = << >> THEN 0 ELSE Len(environmentFeatures[1].features))
        * Len(contexts)

(***************************************************************************)
(* C1: evaluateAdvancedQuery rejects with an error and no result whenever  *)
(* environments x features x expanded contexts exceeds the limit, and then *)
(* no evaluation has been started and client.isEnabled was never called;   *)
(* the error carries the computed size and the limit.  The number of       *)
(* features is that of the first requested environment.                    *)
(***************************************************************************)
C1_RejectsBeforeAnyEvaluation ==
    (call.kind = Advanced /\ pc \in { "evaluating", "done", "rejected" }
        /\ RequestSize > call.limit)
    => /\ pc = "rejected"
       /\ out.status = "error"
       /\ out.error = "ComplexityExceededError"
       /\ out.size = RequestSize
       /\ out.limit = call.limit
       /\ "value" \notin DOMAIN out
       /\ results = << >>
       /\ cur = Idle
       /\ evalCalls = 0
       /\ engineLog = {}
       /\ variantCalls = {}

C1_Witness ==
    /\ pc = "rejected"
    /\ Len(call.environments) = 2
    /\ Len(contexts) = 2
    /\ RequestSize > call.limit
    /\ call.limit > 0

(***************************************************************************)
(* C2: the Complexity Guard decides, accepting or rejecting, before the    *)
(* Context Expander has produced any concrete context.                     *)
(***************************************************************************)
C2_GuardBeforeExpander ==
    [][ (pc = "expanded" /\ pc' \in { "evaluating", "rejected" }) => contexts = << >> ]_vars

(***************************************************************************)
(* C3: a result for a feature that is not enabled in the environment has   *)
(* isEnabled false, isEnabledInCurrentEnvironment false and the disabled   *)
(* default variant.                                                        *)
(***************************************************************************)
C3_NotEnabledInEnvironment ==
    \A item \in ProducedItems :
        ~DefinitionOf(item).enabled
        => /\ item.isEnabled = FALSE
           /\ item.isEnabledInCurrentEnvironment = FALSE
           /\ item.variant = getDefaultVariant

C3_Witness ==
    \E item \in Range(ReturnedItems) :
        /\ ~DefinitionOf(item).enabled
        /\ DefinitionOf(item).variants # << >>
        /\ \E i \in DOMAIN DefinitionOf(item).strategies :
               StrategyResult(DefinitionOf(item).strategies[i], ActiveSegments,
                              ClientContext(item.context)) = "true"

(***************************************************************************)
(* C4: a result with hasUnsatisfiedDependency has isEnabled false and the  *)
(* disabled default variant, whatever its own strategies produced.         *)
(***************************************************************************)
C4_UnsatisfiedDependencyDisables ==
    \A item \in ProducedItems :
        item.hasUnsatisfiedDependency
        => /\ item.isEnabled = FALSE
           /\ item.variant = getDefaultVariant

C4_Witness ==
    \E item \in Range(ReturnedItems) :
        /\ item.hasUnsatisfiedDependency
        /\ item.strategies.result = "true"
        /\ item.isEnabledInCurrentEnvironment
        /\ DefinitionOf(item).variants # << >>

(***************************************************************************)
(* C5: the outcome client.isEnabled gives for a feature is "true" exactly   *)
(* when one of its strategies that are not disabled evaluates to true;     *)
(* with none true it is "unknown" when one evaluates to unknown, and        *)
(* "false" otherwise.  The per-strategy detail is that of the strategies    *)
(* that are not disabled, in their order.                                  *)
(***************************************************************************)
C5_StrategiesAreOred ==
    \A e \in engineLog :
        LET feature == CHOOSE f \in Range(store[e.key.environment]) : f.name = e.key.name
            data == e.evaluation.strategies
            anyTrue == \E i \in DOMAIN data : data[i].result = "true"
            anyUnknown == \E i \in DOMAIN data : data[i].result = "unknown"
            active == SelectSeq(feature.strategies, LAMBDA s : ~s.disabled)
        IN  /\ e.evaluation.result = "true" <=> anyTrue
            /\ e.evaluation.result = "unknown" <=> (~anyTrue /\ anyUnknown)
            /\ e.evaluation.result = "false" <=> (~anyTrue /\ ~anyUnknown)
            /\ (feature.enabled /\ e.evaluation.error = "none")
               => /\ Len(data) = Len(active)
                  /\ \A i \in DOMAIN data :
                        data[i].result = StrategyResult(active[i], ActiveSegments,
                                                        ClientContext(e.key.context))

C5_Witness ==
    /\ \E e \in engineLog :
          /\ e.evaluation.result = "unknown"
          /\ \E i \in DOMAIN e.evaluation.strategies :
                e.evaluation.strategies[i].result = "false"
    /\ \E e \in engineLog :
          /\ e.evaluation.result = "true"
          /\ \E i \in DOMAIN e.evaluation.strategies :
                e.evaluation.strategies[i].result = "unknown"
    /\ \E e \in engineLog :
          /\ e.evaluation.result = "false"
          /\ e.evaluation.strategies # << >>

(***************************************************************************)
(* C6: strategies.result of every result, built or returned, by            *)
(* evaluateQuery or by evaluateAdvancedQuery, is the outcome               *)
(* client.isEnabled gave for that feature, context and environment: an     *)
(* unknown outcome is reported as unknown.                                 *)
(***************************************************************************)
C6_OutcomePreserved ==
    \A item \in ProducedItems :
        /\ \E e \in engineLog : e.key = KeyOf(item)
        /\ \A e \in engineLog :
              e.key = KeyOf(item) => item.strategies.result = e.evaluation.result

C6_Witness ==
    /\ call.kind = Advanced
    /\ \E item \in Range(ReturnedItems) : item.strategies.result = "unknown"
    /\ \E item \in Range(ReturnedItems) : item.strategies.result = "true"
    /\ \E item \in Range(ReturnedItems) : item.strategies.result = "false"

(***************************************************************************)
(* C7: client.forceGetVariant is called only for results whose isEnabled   *)
(* is true; every result carries a variant, and a result whose isEnabled   *)
(* is false carries the disabled default variant.                          *)
(***************************************************************************)
C7_VariantOnlyWhenEnabled ==
    /\ \A k \in variantCalls :
          /\ \E item \in ProducedItems : KeyOf(item) = k
          /\ \A item \in ProducedItems : KeyOf(item) = k => item.isEnabled
    /\ \A item \in ProducedItems :
          /\ item.variant # NullVariant
          /\ "name" \in DOMAIN item.variant
          /\ ~item.isEnabled => item.variant = getDefaultVariant
          /\ item.isEnabled => KeyOf(item) \in variantCalls

C7_Witness ==
    /\ \E item \in Range(ReturnedItems) :
          /\ item.isEnabled
          /\ item.variant.name \in { "vA", "vB", "vS" }
    /\ \E item \in Range(ReturnedItems) :
          /\ ~item.isEnabled
          /\ item.strategies.result = "true"
          /\ DefinitionOf(item).variants # << >>
    /\ \E item \in Range(ReturnedItems) :
          /\ item.isEnabled
          /\ item.variant = getDefaultVariant

(***************************************************************************)
(* C8: one evaluation moves only along NotEvaluated, DependencyCheck,      *)
(* StrategyEvaluation, then Enabled, Disabled or Unknown, then             *)
(* VariantAssigned from Enabled alone; nothing leaves Disabled, Unknown or *)
(* VariantAssigned but the start of another evaluation; and every          *)
(* evaluation that begins reaches one of these three.                      *)
(***************************************************************************)
C8_Edges ==
    { << "NotEvaluated", "DependencyCheck" >>,
      << "DependencyCheck", "DependencyCheck" >>,
      << "DependencyCheck", "StrategyEvaluation" >>,
      << "StrategyEvaluation", "Enabled" >>,
      << "StrategyEvaluation", "Disabled" >>,
      << "StrategyEvaluation", "Unknown" >>,
      << "Enabled", "VariantAssigned" >> }

C8_Step ==
    IF cur'.task = cur.task /\ cur'.fi = cur.fi
    THEN cur'.phase = cur.phase \/ << cur.phase, cur'.phase >> \in C8_Edges
    ELSE /\ cur.phase \in { "Idle", "Disabled", "Unknown", "VariantAssigned" }
         /\ cur'.phase \in { "Idle", "NotEvaluated" }

\* the phase changes with the evaluation only out of Disabled, Unknown and
\* VariantAssigned, so the state an evaluation leads to is its own
C8_StateMachine ==
    /\ [][C8_Step]_vars
    /\ (cur.phase = "NotEvaluated")
          ~> (cur.phase \in { "Disabled", "Unknown", "VariantAssigned" } /\ ~cur.pending)

C8_Witness ==
    /\ cur.phase = "VariantAssigned"
    /\ cur.fi = 3
    /\ \E item \in Range(cur.items) :
          item.strategies.result = "unknown" /\ ~item.hasUnsatisfiedDependency
    /\ \E item \in ProducedItems : item.hasUnsatisfiedDependency

(***************************************************************************)
(* C9: the evaluation of a feature that depends on itself, directly or     *)
(* through other features, ends, and client.isEnabled answers with a       *)
(* ConfigurationError for it; a dependency resolution is never deeper than *)
(* the number of features.                                                 *)
(***************************************************************************)
RECURSIVE C9_Closure(_, _)
C9_Closure(names, features) ==
    LET more == names \cup
                { d.feature : d \in UNION { Range(f.dependencies) :
                                              f \in { g \in Range(features) : g.name \in names } } }
    IN  IF more = names THEN names ELSE C9_Closure(more, features)

C9_DependsOnItself(feature, features) ==
    feature.name \in
        C9_Closure({ d.feature : d \in Range(feature.dependencies) }, features)

C9_Bounded ==
    /\ cur.task # 0 => Len(cur.stack) <= Len(Input.features)
    /\ \A e \in engineLog :
          LET features == store[e.key.environment]
              feature == CHOOSE f \in Range(features) : f.name = e.key.name
          IN  C9_DependsOnItself(feature, features)
              => e.evaluation.error = ConfigurationError

C9_CycleIsConfigurationError ==
    /\ []C9_Bounded
    /\ (cur.phase = "DependencyCheck" /\ C9_DependsOnItself(CurrentFeature, Input.features))
          ~> (cur.phase = "Disabled" /\ ~cur.pending
              /\ cur.evaluation.error = ConfigurationError)

C9_Witness ==
    /\ pc = "done"
    /\ \E e \in engineLog :
          LET features == store[e.key.environment]
              feature == CHOOSE f \in Range(features) : f.name = e.key.name
          IN  /\ C9_DependsOnItself(feature, features)
              /\ \A d \in Range(feature.dependencies) : d.feature # feature.name
              /\ e.evaluation.error = ConfigurationError

(***************************************************************************)
(* C10: a feature whose evaluation fails does not make the call reject: a  *)
(* call rejects only for its complexity, every call ends, and a call that  *)
(* returns has one result for every requested environment, context and     *)
(* feature, the failing features reported as not enabled with outcome      *)
(* false or unknown.                                                       *)
(***************************************************************************)
C10_Matching(environment, context, name) ==
    { i \in DOMAIN ReturnedItems :
        /\ ReturnedItems[i].environment = environment
        /\ ReturnedItems[i].context = context
        /\ ReturnedItems[i].name = name }

C10_Failed(item) ==
    \E e \in engineLog : e.key = KeyOf(item) /\ e.evaluation.error # "none"

C10_ResultPerTuple ==
    /\ pc = "rejected"
       => out.status = "error" /\ out.error = "ComplexityExceededError"
          /\ RequestSize > call.limit
    /\ pc = "done"
       => /\ out.status = "ok"
          /\ \A e \in DOMAIN call.environments : \A c \in DOMAIN contexts :
                \A f \in Range(getPlaygroundFeatures(ResolvedProjects, call.environments[e])) :
                    Cardinality(C10_Matching(call.environments[e], contexts[c], f.name)) = 1
          /\ \A i \in DOMAIN ReturnedItems :
                C10_Failed(ReturnedItems[i])
                => /\ ~ReturnedItems[i].isEnabled
                   /\ ReturnedItems[i].strategies.result \in { "false", "unknown" }

C11_ExpectedKeys ==
    FlatSeq([ e \in DOMAIN call.environments |->
        FlatSeq([ c \in DOMAIN contexts |->
            LET features == getPlaygroundFeatures(ResolvedProjects, call.environments[e])
            IN  [ f \in DOMAIN features |->
                    [ environment |-> call.environments[e], context |-> contexts[c],
                      name |-> features[f].name ] ] ]) ])

C11_DiscoveryOrder ==
    (pc = "done" /\ call.kind = Advanced)
    => LET items == FlatSeq(CollectedResults)
           names == FirstSeen([ i \in DOMAIN items |-> items[i].name ], {})
       IN  /\ [ i \in DOMAIN items |-> KeyOf(items[i]) ] = C11_ExpectedKeys
           /\ [ g \in DOMAIN out.value |-> out.value[g].name ] = names
           /\ \A g \in DOMAIN out.value :
                 LET mine == SelectSeq(items, LAMBDA it : it.name = names[g])
                     envs == FirstSeen([ i \in DOMAIN mine |-> mine[i].environment ], {})
                     groups == out.value[g].environments
                 IN  /\ [ e \in DOMAIN groups |-> groups[e].key ] = envs
                     /\ \A e \in DOMAIN groups :
                           groups[e].entries
                               = SelectSeq(mine, LAMBDA it : it.environment = envs[e])

(***************************************************************************)
(* C12: the Context Expander produces, for a template whose fields have    *)
(* n1 .. nk values, exactly n1 x ... x nk contexts, different from one     *)
(* another, each with one value of every field taken from that field's     *)
(* values; a template with no multi-valued field produces one context.     *)
(***************************************************************************)
RECURSIVE C12_Product(_)
C12_Product(template) ==
    IF template = << >> THEN 1
    ELSE Len(Head(template).vals) * C12_Product(Tail(template))

C12_ExpanderCount ==
    (call.kind = Advanced /\ pc \in { "expanded", "evaluating", "done", "rejected" })
    => /\ Len(contexts) = C12_Product(call.context)
       /\ \A c \in DOMAIN contexts :
             /\ DOMAIN contexts[c] = { call.context[i].name : i \in DOMAIN call.context }
             /\ \A i \in DOMAIN call.context :
                   contexts[c][call.context[i].name] \in Range(call.context[i].vals)
       /\ \A c, d \in DOMAIN contexts : c # d => contexts[c] # contexts[d]
       /\ (\A i \in DOMAIN call.context : ~call.context[i].multi) => Len(contexts) = 1

C12_Witness ==
    /\ pc = "expanded"
    /\ Len(contexts) = 4
    /\ Cardinality({ i \in DOMAIN call.context : call.context[i].multi }) = 2

(***************************************************************************)
(* C13: a second evaluation of the same features, segments, context and    *)
(* environment builds the results the first one built, equal in every      *)
(* field, also for a context that carries no stickiness field.             *)
(***************************************************************************)
C13_Idempotent ==
    /\ cur.second = cur.items
    /\ \A t \in DOMAIN results : results[t].second = results[t].items

C15_NoStrategyDetail ==
    \A item \in ProducedItems :
        ~DefinitionOf(item).enabled
        => /\ item.strategies.data = << >>
           /\ item.strategies.result = "false"
           /\ ~item.isEnabled

C15_Witness ==
    \E item \in Range(ReturnedItems) :
        /\ ~DefinitionOf(item).enabled
        /\ Len(DefinitionOf(item).strategies) = 2
        /\ item.strategies.data = << >>

(***************************************************************************)
(* C16: the variants a result reports are those of the satisfied strategy  *)
(* when it defines at least one, the feature's when the evaluation         *)
(* supplies none, and the empty list only when neither the strategy nor    *)
(* the feature defines a variant.                                          *)
(***************************************************************************)
C16_VariantsPrecedence ==
    \A item \in ProducedItems :
        LET hits == SelectSeq(item.strategies.data, LAMBDA d : d.result = "true")
            own == IF hits # << >> /\ hits[1].variants.some
                   THEN hits[1].variants.val ELSE << >>
        IN  /\ own # << >> => item.variants = own
            /\ (hits = << >> \/ ~hits[1].variants.some)
               => item.variants = DefinitionOf(item).variants
            /\ item.variants = << >>
               => (own = << >> /\ DefinitionOf(item).variants = << >>)

(***************************************************************************)
(* C17: a call leaves its arguments and the definitions as they were: the  *)
(* call's arguments and the store never change, the features under         *)
(* evaluation are the store's, and the context a result records is one of  *)
(* the concrete contexts of the template, its currentTime as it was given. *)
(***************************************************************************)
C17_Frame ==
    /\ \A e \in DOMAIN environmentFeatures :
          /\ environmentFeatures[e].features
                 = SelectSeq(store[call.environments[e]],
                             LAMBDA f : f \in Range(environmentFeatures[e].features))
          /\ (call.projects = ALL /\ ~call.privateProjects)
             => environmentFeatures[e].features = store[call.environments[e]]
    /\ \A t \in DOMAIN results :
          ~results[t].done
          => /\ \E e \in DOMAIN environmentFeatures :
                   /\ environmentFeatures[e].environment = results[t].input.environment
                   /\ environmentFeatures[e].features = results[t].input.features
             /\ results[t].input.context \in Range(generateObjectCombinations(call.context))
    /\ \A item \in ProducedItems :
          item.context \in Range(generateObjectCombinations(call.context))

C17_InputsUnchanged ==
    /\ [][call' = call /\ store' = store]_vars
    /\ []C17_Frame

C17_Witness ==
    /\ pc = "done"
    /\ call.kind = Advanced
    /\ \E i \in DOMAIN call.context : call.context[i].name = "currentTime"
    /\ \E item \in Range(ReturnedItems) :
          /\ "currentTime" \in DOMAIN item.context
          /\ ClientContext(item.context) # item.context

(***************************************************************************)
(* C18: the report evaluateAdvancedQuery returns is the report of the same *)
(* evaluations run again, one after another, whatever the order in which   *)
(* the concurrent evaluations were run.                                    *)
(***************************************************************************)
C18_SameReport ==
    (pc = "done" /\ call.kind = Advanced)
    => out.value = GroupedReport(FlatSeq([ t \in DOMAIN results |-> results[t].second ]))

(***************************************************************************)
(* C19: a strategy one of whose constraints has a value, or a context      *)
(* value, that does not parse as a number is not satisfied: the constraint *)
(* counts as not satisfied, the strategy evaluates to false, and the       *)
(* feature's evaluation goes on without an error.                          *)
(***************************************************************************)
C19_ParseFails(c, ctx) ==
    /\ c.operator \in { "NUM_EQ", "NUM_GT", "NUM_LT" }
    /\ ContextValue(ctx, c.contextField).some
    /\ \/ ~NumberOf(ContextValue(ctx, c.contextField).val).some
       \/ \E v \in c.values : ~NumberOf(v).some

C19_ParseFailureNotSatisfied ==
    \A e \in engineLog :
        LET feature == CHOOSE f \in Range(store[e.key.environment]) : f.name = e.key.name
            active == SelectSeq(feature.strategies, LAMBDA s : ~s.disabled)
            ctx == ClientContext(e.key.context)
        IN  (\E i \in DOMAIN active : \E c \in Range(active[i].constraints) :
                    C19_ParseFails(c, ctx))
            => /\ e.evaluation.error = "none"
               /\ feature.enabled
                  => \A i \in DOMAIN active :
                        (\E c \in Range(active[i].constraints) : C19_ParseFails(c, ctx))
                        => e.evaluation.strategies[i].result = "false"

(***************************************************************************)
(* C20: a caller who holds ADMIN, an API token whose permissions include   *)
(* it or a user with a role that carries it, is answered true by           *)
(* hasPermission whenever the permissions were obtained, whatever          *)
(* permission or list of permissions, project and environment is asked.    *)
(***************************************************************************)
C20_RolesOf(userId) ==
    { ur.role_id : ur \in { x \in db.roleUser : x.user_id = userId } }
    \cup { gr.role_id : gr \in { x \in db.groupRole :
                                  [ group_id |-> x.group_id, user_id |-> userId ]
                                      \in db.groupUser } }
    \cup { g.root_role_id.val : g \in { x \in db.groups :
                                  /\ x.root_role_id.some
                                  /\ [ group_id |-> x.id, user_id |-> userId ]
                                         \in db.groupUser } }

C20_HoldsAdmin(user) ==
    IF user.isAPI
    THEN user.permissions.some /\ ADMIN \in Range(user.permissions.val)
    ELSE \E rp \in db.rolePermission :
            rp.permission = ADMIN /\ rp.role_id \in C20_RolesOf(user.id)

C20_AdminPassesEveryCheck ==
    (perm.pc = "returned" /\ ~perm.logged /\ C20_HoldsAdmin(perm.user))
    => perm.result = TRUE

C20_Witness ==
    /\ perm.pc = "returned"
    /\ ~perm.user.isAPI
    /\ C20_HoldsAdmin(perm.user)
    /\ \A ur \in db.roleUser : ur.user_id = perm.user.id => ur.project # "p2"
    /\ perm.projectId = Some("p2")
    /\ perm.environment = Some("prod")
    /\ perm.permission.array
    /\ perm.result = TRUE

(***************************************************************************)
(* C21: for every evaluateAdvancedQuery call that passes the Complexity    *)
(* Guard, the number of per-feature evaluations performed, the sum over    *)
(* the requested environments of features resolved x expanded contexts, is *)
(* at most the limit, also when the environments resolve different numbers *)
(* of features.                                                            *)
(***************************************************************************)
RECURSIVE C21_Sum(_)
C21_Sum(counts) ==
    IF counts = << >> THEN 0 ELSE Head(counts) + C21_Sum(Tail(counts))

C21_PlannedEvaluations ==
    C21_Sum([ e \in DOMAIN environmentFeatures |->
                Len(environmentFeatures[e].features) * Len(contexts) ])

C21_EvaluationsWithinLimit ==
    (call.kind = Advanced /\ pc \in { "evaluating", "done" })
    => /\ C21_PlannedEvaluations <= call.limit
       /\ evalCalls <= call.limit

(***************************************************************************)
(* C22: the aggregation of evaluateAdvancedQuery is a partition of the     *)
(* evaluated tuples: every result produced by an (environment, context)    *)
(* evaluation appears exactly once in the report, under the feature entry  *)
(* of its name and the environment key of its environment; the report      *)
(* holds nothing else, no feature entry twice and no environment key twice *)
(* in one entry.                                                           *)
(***************************************************************************)
C22_Places(item) ==
    { << g, e, j >> \in (DOMAIN out.value) \X (1..Cardinality(Environments))
                            \X (1..Len(FlatSeq(CollectedResults))) :
        /\ e \in DOMAIN out.value[g].environments
        /\ j \in DOMAIN out.value[g].environments[e].entries
        /\ out.value[g].environments[e].entries[j] = item }

C22_AggregationIsPartition ==
    (pc = "done" /\ call.kind = Advanced)
    => LET items == FlatSeq(CollectedResults)
       IN  /\ \A i \in DOMAIN items :
                 /\ Cardinality(C22_Places(items[i])) = 1
                 /\ \A place \in C22_Places(items[i]) :
                       /\ out.value[place[1]].name = items[i].name
                       /\ out.value[place[1]].environments[place[2]].key
                              = items[i].environment
           /\ Len(ReturnedItems) = Len(items)
           /\ \A g, h \in DOMAIN out.value :
                 out.value[g].name = out.value[h].name => g = h
           /\ \A g \in DOMAIN out.value :
                 \A e, f \in DOMAIN out.value[g].environments :
                    out.value[g].environments[e].key = out.value[g].environments[f].key
                        => e = f

C22_Witness ==
    /\ pc = "done"
    /\ call.kind = Advanced
    /\ Len(out.value) >= 2
    /\ Len(FlatSeq(CollectedResults)) >= 4
    /\ \E g \in DOMAIN out.value : Len(out.value[g].environments) = 2

(***************************************************************************)
(* C23: the two call shapes agree.  For one environment e and a context    *)
(* with no multi-valued field, when the limit is not exceeded and project  *)
(* access is unrestricted, the report of evaluateAdvancedQuery([e]) holds  *)
(* for each resolved feature exactly one result, under environment e, and  *)
(* that result without its environment and context keys equals the result  *)
(* evaluateQuery returns for that feature, which is what evaluate answers  *)
(* for the same features, environment and context (lines 270 to 278);      *)
(* evaluateQuery returns exactly one result per resolved feature, in the   *)
(* order of the feature definitions, and the empty list when no feature is *)
(* resolved.                                                               *)
(***************************************************************************)
C23_EvaluateQueryReturns ==
    [ i \in DOMAIN results[1].second |-> omitKeys(results[1].second[i]) ]

C23_AdvancedAgrees ==
    (pc = "done" /\ call.kind = Advanced /\ Len(call.environments) = 1
        /\ call.context \in SingleContexts)
    => LET features == environmentFeatures[1].features
       IN  /\ Len(C23_EvaluateQueryReturns) = Len(features)
           /\ \A f \in DOMAIN features :
                 LET entries == SelectSeq(out.value,
                                          LAMBDA entry : entry.name = features[f].name)
                 IN  /\ Len(entries) = 1
                     /\ Len(entries[1].environments) = 1
                     /\ entries[1].environments[1].key = call.environments[1]
                     /\ Len(entries[1].environments[1].entries) = 1
                     /\ omitKeys(entries[1].environments[1].entries[1])
                            = C23_EvaluateQueryReturns[f]
           /\ Len(out.value) = Len(features)

C23_SimpleOnePerFeature ==
    (pc = "done" /\ call.kind = Simple)
    => LET features == environmentFeatures[1].features
       IN  /\ out.status = "ok"
           /\ [ i \in DOMAIN out.value |-> out.value[i].name ]
                  = [ f \in DOMAIN features |-> features[f].name ]
           /\ \A i \in DOMAIN out.value :
                 DOMAIN out.value[i] = DOMAIN results[1].items[i] \ { "environment", "context" }
           /\ features = << >> => out.value = << >>

C23_CallShapesAgree == C23_AdvancedAgrees /\ C23_SimpleOnePerFeature

(***************************************************************************)
(* C24: when the privateProjects flag is enabled and the user's project    *)
(* access mode is not 'all', evaluateAdvancedQuery resolves the features   *)
(* of the accessible projects only: of all of them when ALL is requested,  *)
(* otherwise of the requested projects that are accessible, none when      *)
(* there is no such project; no result has a projectId outside the         *)
(* accessible projects.                                                    *)
(***************************************************************************)
C24_Restricted ==
    call.kind = Advanced /\ call.privateProjects /\ call.projectAccess.mode # "all"

C24_Visible(project) ==
    /\ project \in Range(call.projectAccess.projects)
    /\ call.projects # ALL => project \in Range(call.projects.list)

C24_OnlyAccessibleProjects ==
    C24_Restricted
    => /\ \A e \in DOMAIN environmentFeatures :
             environmentFeatures[e].features
                 = SelectSeq(store[call.environments[e]],
                             LAMBDA f : C24_Visible(f.project))
       /\ \A item \in ProducedItems :
             /\ item.projectId.some
             /\ item.projectId.val \in Range(call.projectAccess.projects)

C24_Witness ==
    /\ C24_Restricted
    /\ pc = "done"
    /\ out.status = "ok"
    /\ out.value # << >>
    /\ \E e \in DOMAIN call.environments :
          \E f \in Range(store[call.environments[e]]) :
             /\ f.project \notin Range(call.projectAccess.projects)
             /\ call.projects # ALL => f.project \in Range(call.projects.list)

(***************************************************************************)
(* C25: hasPermission fails closed.  When the permissions of the user      *)
(* cannot be obtained, because the access store throws or because an API   *)
(* user has no permission list, hasPermission answers false and does not   *)
(* throw; it answers true only if the user holds a permission that is      *)
(* ADMIN or one of those asked for, whose project is unset, the project    *)
(* asked for or ALL_PROJECTS, and whose environment is unset, the          *)
(* environment asked for or ALL_ENVS.                                      *)
(***************************************************************************)
C25_Allows(pm) ==
    /\ pm.permission = ADMIN \/ pm.permission \in Range(perm.permissionsArray)
    /\ ~pm.project.some \/ pm.project = perm.projectId \/ pm.project.val = ALL_PROJECTS
    /\ ~pm.environment.some \/ pm.environment = perm.environment
          \/ pm.environment.val = ALL_ENVS

C25_Answer ==
    perm.pc = "returned"
    => /\ perm.result \in BOOLEAN
       /\ (perm.user.isAPI /\ ~perm.user.permissions.some) => perm.result = FALSE
       /\ perm.logged => perm.result = FALSE
       /\ perm.result = TRUE
          => /\ "userP" \in DOMAIN perm
             /\ perm.userP.some
             /\ \E pm \in perm.userP.val : C25_Allows(pm)

C25_Caught ==
    (perm.pc = "thrown" \/ (perm.pc = "fetched" /\ ~perm.userP.some))
    => (perm'.pc = "returned" /\ perm'.result = FALSE)

C25_FailsClosed == []C25_Answer /\ [][C25_Caught]_vars

C25_Witness ==
    /\ perm.pc = "returned"
    /\ ~perm.user.isAPI
    /\ perm.logged
    /\ perm.result = FALSE
    /\ PermissionGranted(getPermissionsForUser(perm.user).val, perm.permissionsArray,
                         perm.projectId, perm.environment)

(***************************************************************************)
(* C26: setUserRootRole never leaves a user without a root role.  A user   *)
(* who held a root role before the call holds exactly one root role after  *)
(* it, whether the call succeeded or failed (unknown role, or an error of  *)
(* the store between removing the old root roles and adding the new one):  *)
(* the requested role after a success, the previous one after a failure.   *)
(***************************************************************************)
C26_RootRoles(tables, userId) ==
    { ru \in tables.roleUser :
        /\ ru.user_id = userId
        /\ \E r \in tables.roles : r.id = ru.role_id /\ r.type \in ROOT_ROLE_TYPES }

C26_AlwaysOneRootRole ==
    (ops.op = "setUserRootRole" /\ ops.pc \in { "done", "failed" }
        /\ C26_RootRoles(ops.before, ops.userId) # {})
    => /\ Cardinality(C26_RootRoles(db, ops.userId)) = 1
       /\ ops.pc = "done"
          => C26_RootRoles(db, ops.userId)
                 = { [ user_id |-> ops.userId, role_id |-> ops.role,
                       project |-> DEFAULT_PROJECT ] }
       /\ ops.pc = "failed"
          => C26_RootRoles(db, ops.userId) = C26_RootRoles(ops.before, ops.userId)

(***************************************************************************)
(* C27: deleteRole never deletes a role that is in use.  A role assigned   *)
(* to a user or a group when the delete happens is not deleted, also when  *)
(* the assignment was made by an addUserToRole or addGroupToRole between   *)
(* the in-use check of deleteRole and its delete; a call that fails with   *)
(* RoleInUseError leaves the role and its assignments, and no user or      *)
(* group is ever assigned to a role that was deleted.                      *)
(***************************************************************************)
C27_InUse(tables, id) ==
    \/ \E ru \in tables.roleUser : ru.role_id = id
    \/ \E gr \in tables.groupRole : gr.role_id = id

C27_Assigned ==
    /\ \A ru \in db.roleUser : get(ru.role_id) # {}
    /\ \A gr \in db.groupRole : get(gr.role_id) # {}
    /\ (ops.op = "deleteRole" /\ ops.pc = "failed" /\ ops.error = "RoleInUseError")
       => /\ db.roles = ops.before.roles
          /\ ops.before.roleUser \subseteq db.roleUser
          /\ ops.before.groupRole \subseteq db.groupRole
    /\ (ops.op = "deleteRole" /\ ops.pc = "failed" /\ C27_InUse(ops.before, ops.id)
            /\ validateRoleIsNotBuiltIn(ops.id) = "none")
       => ops.error = "RoleInUseError"

C27_Delete ==
    (ops.op = "deleteRole" /\ db'.roles # db.roles) => ~C27_InUse(db, ops.id)

C27_NeverDeletesRoleInUse == []C27_Assigned /\ [][C27_Delete]_vars

(***************************************************************************)
(* C28: built-in roles cannot be changed.  updateRole and deleteRole       *)
(* applied to a role whose type is neither the custom project role type    *)
(* nor the custom root role type fail with InvalidOperationError, and the  *)
(* name, description, type and permissions of the role are the same after  *)
(* the call as before, for every role id.                                  *)
(***************************************************************************)
C28_BuiltIn(tables, id) ==
    \E r \in tables.roles :
        /\ r.id = id
        /\ r.type \notin { CUSTOM_PROJECT_ROLE_TYPE, CUSTOM_ROOT_ROLE_TYPE }

C28_RoleOf(tables, id) ==
    [ rows |-> { r \in tables.roles : r.id = id },
      permissions |-> { rp \in tables.rolePermission : rp.role_id = id } ]

C28_OnBuiltIn ==
    /\ ops.op \in { "updateRole", "deleteRole" }
    /\ C28_BuiltIn(ops.before, ops.id)

C29_RootAssignment(tables, userId) ==
    { ru \in tables.roleUser :
        /\ ru.user_id = userId
        /\ \E r \in tables.roles : r.id = ru.role_id /\ r.type \in ROOT_ROLE_TYPES }

C29_RootRolesUntouched ==
    ops.op \in { "updateUserProjectRole", "removeUserAccess", "setProjectRolesForUser" }
    => /\ \A userId \in RoleUsers :
             C29_RootAssignment(db, userId) = C29_RootAssignment(ops.before, userId)
       /\ ops.op = "setProjectRolesForUser"
          => \A ru \in db.roleUser \ ops.before.roleUser :
                \E r \in db.roles : r.id = ru.role_id /\ r.type \in PROJECT_ROLE_TYPES

(***************************************************************************)
(* C30: group names stay unique and non-empty.  createGroup with an empty  *)
(* name fails with BadDataError; createGroup with a name in use, and       *)
(* updateGroup changing a group's name to one another group has, fail with *)
(* NameExistsError; a failed call stores nothing and emits no event; so    *)
(* after any sequence and interleaving of createGroup and updateGroup      *)
(* calls no two groups share a name.                                       *)
(***************************************************************************)
C30_FailedCall(p) ==
    /\ grp.calls[p].pc = "failed"
    /\ \A i \in DOMAIN grp.events : grp.events[i].by # p

C30_UniqueNames ==
    /\ \A g, h \in grp.groups : g.name = h.name => g.id = h.id
    /\ \A g \in grp.groups : g.name # ""
    /\ \A p \in DOMAIN grp.calls :
          /\ grp.calls[p].pc = "failed" => C30_FailedCall(p)
          /\ (grp.calls[p].pc \in { "storing", "emitting", "done", "failed" }
                 /\ grp.calls[p].op = "createGroup" /\ grp.calls[p].group.name = "")
             => (grp.calls[p].pc = "failed" /\ grp.calls[p].error = "BadDataError")
          /\ (grp.calls[p].pc = "failed" /\ grp.calls[p].op = "createGroup"
                 /\ grp.calls[p].group.name # "")
             => grp.calls[p].error = "NameExistsError"
    /\ (\A p \in DOMAIN grp.calls : grp.calls[p].pc = "failed")
       => grp.groups = { Group(1, "a"), Group(2, "b") }

====
